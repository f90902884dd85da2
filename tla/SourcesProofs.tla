--------------------------- MODULE SourcesProofs ---------------------------
(***************************************************************************)
(* What Sources promises of each adapter, proved for any number of         *)
(* messages, partitions, copies in the application and faults.  For each   *)
(* adapter an inductive invariant says what is true of a message while an  *)
(* acknowledgement of it is on its way; the theorems at the end put the    *)
(* adapters together.                                                      *)
(***************************************************************************)
EXTENDS Sources, SequenceLemmas

Outcomes == {"ok", "err", "rejected", "other"}

\* What the shared variables hold, for copies of the given kind.
SharedInv(copies, messages, maxFaults) ==
    /\ held \in Seq(copies) /\ Len(held) <= MaxHeld
    /\ outcome \in [messages -> SUBSET Outcomes]
    /\ phase \in {"run", "stop", "end"}
    /\ faults \in 0..maxFaults

\* The instances of the adapters have their own copies of the operators of the
\* community modules.
LEMMA InstanceOperators ==
    /\ \A S : /\ A!Cardinality(S) = Cardinality(S) /\ P!Cardinality(S) = Cardinality(S)
              /\ R!Cardinality(S) = Cardinality(S)
    /\ \A s : A!ToSet(s) = ToSet(s) /\ P!ToSet(s) = ToSet(s) /\ R!ToSet(s) = ToSet(s)
    /\ \A s, i : /\ A!RemoveAt(s, i) = RemoveAt(s, i) /\ P!RemoveAt(s, i) = RemoveAt(s, i)
                 /\ R!RemoveAt(s, i) = RemoveAt(s, i) /\ K!RemoveAt(s, i) = RemoveAt(s, i)
<1>1. \A S : /\ A!Cardinality(S) = Cardinality(S) /\ P!Cardinality(S) = Cardinality(S)
             /\ R!Cardinality(S) = Cardinality(S)
  BY DEF Cardinality, A!Cardinality, P!Cardinality, R!Cardinality
<1>2. \A s : A!ToSet(s) = ToSet(s) /\ P!ToSet(s) = ToSet(s) /\ R!ToSet(s) = ToSet(s)
  BY DEF ToSet, A!ToSet, P!ToSet, R!ToSet
<1>3. \A s, i : /\ A!RemoveAt(s, i) = RemoveAt(s, i) /\ P!RemoveAt(s, i) = RemoveAt(s, i)
                /\ R!RemoveAt(s, i) = RemoveAt(s, i) /\ K!RemoveAt(s, i) = RemoveAt(s, i)
  BY DEF RemoveAt, A!RemoveAt, P!RemoveAt, R!RemoveAt, K!RemoveAt
<1>4. QED  BY <1>1, <1>2, <1>3

\* The numbers of a set of messages in ascending order, in each adapter.
LEMMA InOrderProperties ==
    ASSUME NEW S \in SUBSET Msgs
    PROVE  /\ A!InOrder(S) \in Seq(S) /\ ToSet(A!InOrder(S)) = S /\ IsAscending(A!InOrder(S), S)
           /\ R!InOrder(S) = A!InOrder(S) /\ P!InOrder(S) = A!InOrder(S)
           /\ IsFiniteSet(S) /\ Len(A!InOrder(S)) = Cardinality(S)
<1>1. S \in SUBSET Nat /\ IsFiniteSet(S)
  <2>1. IsFiniteSet(Msgs)  BY FS_Interval, SourcesAssumption DEF Msgs
  <2>2. IsFiniteSet(S)  BY <2>1, FS_Subset
  <2>3. N \in Nat  BY SourcesAssumption
  <2>4. QED  BY <2>2, <2>3 DEF Msgs
<1>2. IsAscending(A!InOrder(S), S)
  BY <1>1, AscendingExists, InstanceOperators DEF IsAscending, A!InOrder
<1>3. R!InOrder(S) = A!InOrder(S) /\ P!InOrder(S) = A!InOrder(S)
  BY InstanceOperators DEF A!InOrder, R!InOrder, P!InOrder
<1>4. QED  BY <1>1, <1>2, <1>3, AscendingProperties

\* Releasing a copy takes it out of what the application holds.
LEMMA HeldShrinks ==
    ASSUME NEW C, held \in Seq(C), Len(held) <= MaxHeld, NEW i \in DOMAIN held
    PROVE  /\ RemoveAt(held, i) \in Seq(C) /\ Len(RemoveAt(held, i)) <= MaxHeld
           /\ held[i] \in C
           /\ \A j \in DOMAIN RemoveAt(held, i) : \E h \in DOMAIN held : RemoveAt(held, i)[j] = held[h]
           /\ \A h \in DOMAIN held \ {i} : \E j \in DOMAIN RemoveAt(held, i) : RemoveAt(held, i)[j] = held[h]
<1>1. i \in 1..Len(held) /\ MaxHeld \in Nat  BY SourcesAssumption
<1>2. /\ RemoveAt(held, i) \in Seq(C) /\ Len(RemoveAt(held, i)) = Len(held) - 1
      /\ \A j \in 1..(Len(held) - 1) : RemoveAt(held, i)[j] = held[IF j < i THEN j ELSE j + 1]
  BY <1>1, RemoveAtProperties
<1>3. ASSUME NEW j \in DOMAIN RemoveAt(held, i)
      PROVE  \E h \in DOMAIN held : RemoveAt(held, i)[j] = held[h]
  <2>1. j \in 1..(Len(held) - 1)  BY <1>2
  <2>2. (IF j < i THEN j ELSE j + 1) \in DOMAIN held  BY <2>1
  <2>3. QED  BY <1>2, <2>1, <2>2
<1>4. ASSUME NEW h \in DOMAIN held \ {i}
      PROVE  \E j \in DOMAIN RemoveAt(held, i) : RemoveAt(held, i)[j] = held[h]
  <2> DEFINE j == IF h < i THEN h ELSE h - 1
  <2>1. j \in 1..(Len(held) - 1) /\ (IF j < i THEN j ELSE j + 1) = h  BY <1>1
  <2> HIDE DEF j
  <2>2. RemoveAt(held, i)[j] = held[h]  BY <1>2, <2>1
  <2>3. j \in DOMAIN RemoveAt(held, i)  BY <1>2, <2>1
  <2>4. QED  BY <2>2, <2>3
<1>5. QED  BY <1>1, <1>2, <1>3, <1>4

-----------------------------------------------------------------------------
(* Azure queues: a message is deleted with a pop receipt that the source   *)
(* holds because the message was released as processed, or was written to  *)
(* the dead letter queue.                                                  *)

AzureCopy == [m : Msgs, receipt : Nat]

AzureTyped ==
    /\ SharedInv(AzureCopy, Msgs, MaxFaults)
    /\ broker \in [reads : [Msgs -> 0..MaxReads], visible : SUBSET Msgs, gone : SUBSET Msgs,
                   dead : [Msgs -> Nat]]
    /\ client \in [batch : Seq(AzureCopy), dead : Seq(AzureCopy),
                   deleting : SUBSET AzureCopy, atYield : BOOLEAN]

AzureSound ==
    /\ \A c \in client.deleting : "ok" \in outcome[c.m]
    /\ \A i \in DOMAIN client.dead : "rejected" \in outcome[client.dead[i].m]
    /\ broker.gone \subseteq A!Answered

AzureInv == AzureTyped /\ AzureSound

\* The types once more, as the steps below use them.
LEMMA AzureTypes ==
    ASSUME AzureInv
    PROVE  /\ client.batch \in Seq(AzureCopy) /\ client.dead \in Seq(AzureCopy)
           /\ client.deleting \in SUBSET AzureCopy /\ client.atYield \in BOOLEAN
           /\ \A i \in DOMAIN client.batch : client.batch[i] \in AzureCopy
           /\ \A i \in DOMAIN client.dead : client.dead[i] \in AzureCopy
           /\ \A i \in DOMAIN held : held[i] \in AzureCopy
           /\ \A c \in AzureCopy : c.m \in Msgs /\ c.receipt \in Nat
           /\ outcome \in [Msgs -> SUBSET Outcomes]
<1>1. /\ client.batch \in Seq(AzureCopy) /\ client.dead \in Seq(AzureCopy)
      /\ client.deleting \in SUBSET AzureCopy /\ client.atYield \in BOOLEAN
  BY DEF AzureInv, AzureTyped
<1>2. held \in Seq(AzureCopy) /\ outcome \in [Msgs -> SUBSET Outcomes]
  BY DEF AzureInv, AzureTyped, SharedInv
<1>3. \A c \in AzureCopy : c.m \in Msgs /\ c.receipt \in Nat  BY DEF AzureCopy
<1>4. QED  BY <1>1, <1>2, <1>3

\* The invariant holds at first.
LEMMA AzureInit == A!Init => AzureInv
<1> SUFFICES ASSUME A!Init PROVE AzureInv  OBVIOUS
<1> USE SourcesAssumption
<1>1. AzureTyped
  BY DEF A!Init, A!SharedInit, AzureTyped, SharedInv, Outcomes
<1>2. AzureSound
  BY DEF A!Init, A!SharedInit, AzureSound
<1>3. QED  BY <1>1, <1>2 DEF AzureInv

\* A read gives copies of messages that are the source's to hand out.
LEMMA AzureReadInv ==
    ASSUME AzureInv, A!Read \/ A!ReadFails
    PROVE  AzureInv' /\ broker'.gone = broker.gone
<1> USE SourcesAssumption
<1>1. PICK ms \in SUBSET broker.visible :
        /\ A!Receive(ms)
        /\ \/ /\ client' = [client EXCEPT !.atYield = FALSE,
                    !.batch = [i \in DOMAIN A!Received(ms) |-> A!Hydrated(A!Received(ms)[i], A!Reads(ms))]]
              /\ UNCHANGED <<phase, faults>>
           \/ A!Fault /\ phase' = "end" /\ UNCHANGED client
  BY Zenon DEF A!Read, A!ReadFails
<1> DEFINE reads == A!Reads(ms)
           batch == [i \in DOMAIN A!Received(ms) |-> A!Hydrated(A!Received(ms)[i], reads)]
<1>2. ms \subseteq Msgs /\ A!Received(ms) \in Seq(Msgs)
  <2>1. ms \subseteq Msgs  BY DEF AzureInv, AzureTyped
  <2>2. A!Received(ms) \in Seq(ms \ NoType)  BY <2>1, InOrderProperties DEF A!Received
  <2>3. QED  BY <2>1, <2>2
<1>3. reads \in [Msgs -> 0..MaxReads]
  BY <1>1, <1>2 DEF AzureInv, AzureTyped, A!Reads, A!Receive
<1>4. batch \in Seq(AzureCopy)
  <2>1. \A i \in DOMAIN A!Received(ms) : A!Hydrated(A!Received(ms)[i], reads) \in AzureCopy
    BY <1>2, <1>3 DEF A!Hydrated, A!NoReceipt, AzureCopy
  <2> HIDE DEF reads
  <2>2. QED  BY <1>2, <2>1
<1>5. /\ broker' = [broker EXCEPT !.reads = reads, !.visible = @ \ ms]
      /\ \/ client' = [client EXCEPT !.atYield = FALSE, !.batch = batch] /\ UNCHANGED <<phase, faults>>
         \/ A!Fault /\ phase' = "end" /\ UNCHANGED client
      /\ UNCHANGED <<held, outcome>>
  BY <1>1 DEF A!Receive
<1> HIDE DEF reads, batch
<1>6. AzureTyped'
  <2>1. broker' \in [reads : [Msgs -> 0..MaxReads], visible : SUBSET Msgs, gone : SUBSET Msgs,
                     dead : [Msgs -> Nat]]
    BY <1>3, <1>5 DEF AzureInv, AzureTyped
  <2>2. client' \in [batch : Seq(AzureCopy), dead : Seq(AzureCopy),
                     deleting : SUBSET AzureCopy, atYield : BOOLEAN]
    BY <1>4, <1>5 DEF AzureInv, AzureTyped
  <2>3. faults' \in 0..MaxFaults /\ phase' \in {"run", "stop", "end"}
    BY <1>5 DEF AzureInv, AzureTyped, SharedInv, A!Fault
  <2>4. QED  BY <1>5, <2>1, <2>2, <2>3 DEF AzureInv, AzureTyped, SharedInv
<1>7. AzureSound' /\ broker'.gone = broker.gone
  <2>1. client'.deleting = client.deleting /\ client'.dead = client.dead
    BY <1>5 DEF AzureInv, AzureTyped
  <2>2. broker'.gone = broker.gone  BY <1>5 DEF AzureInv, AzureTyped
  <2>3. QED  BY <1>5, <2>1, <2>2 DEF AzureInv, AzureSound, A!Answered
<1>8. QED  BY SMTT(30), <1>6, <1>7 DEF AzureInv

\* The source hands a copy on, or writes it to the dead letter queue.
LEMMA AzureHandInv ==
    ASSUME AzureInv, A!Yield \/ A!DeadLetter
    PROVE  AzureInv' /\ broker'.gone = broker.gone
<1> USE SourcesAssumption
<1> DEFINE copy == Head(client.batch)
<1>1. copy \in AzureCopy /\ Tail(client.batch) \in Seq(AzureCopy)
  <2>1. client.batch # <<>>  BY Zenon DEF A!Yield, A!DeadLetter, A!Waiting
  <2>2. QED  BY SMTT(30), <2>1, AzureTypes
<1>2. copy.m \in Msgs  BY <1>1 DEF AzureCopy
<1> HIDE DEF copy
<1>3. CASE A!Yield
  <2>1. /\ Len(held) < MaxHeld /\ held' = Append(held, copy)
        /\ client' = [client EXCEPT !.batch = Tail(@), !.atYield = TRUE]
        /\ UNCHANGED <<broker, outcome, phase, faults>>
    BY <1>3 DEF A!Yield, A!Hand, copy
  <2>2. held' \in Seq(AzureCopy) /\ Len(held') <= MaxHeld
    BY <1>1, <2>1 DEF AzureInv, AzureTyped, SharedInv
  <2>3. AzureTyped'  BY <1>1, <2>1, <2>2 DEF AzureInv, AzureTyped, SharedInv
  <2>4. AzureSound' /\ broker'.gone = broker.gone
    BY <2>1 DEF AzureInv, AzureTyped, AzureSound, A!Answered
  <2>5. QED  BY <2>3, <2>4 DEF AzureInv
<1>4. CASE A!DeadLetter
  <2>1. UNCHANGED <<held, phase>>  BY Zenon, <1>4 DEF A!DeadLetter
  <2>2. CASE /\ client' = [client EXCEPT !.batch = Tail(@), !.atYield = FALSE]
             /\ A!Fault /\ UNCHANGED <<broker, outcome>>
    <3>1. /\ client'.dead = client.dead /\ client'.deleting = client.deleting
          /\ client' \in [batch : Seq(AzureCopy), dead : Seq(AzureCopy),
                          deleting : SUBSET AzureCopy, atYield : BOOLEAN]
      BY <1>1, <2>2 DEF AzureInv, AzureTyped, copy
    <3>2. AzureTyped'
      <4>1. faults' \in 0..MaxFaults  BY <2>2 DEF AzureInv, AzureTyped, SharedInv, A!Fault
      <4>2. SharedInv(AzureCopy, Msgs, MaxFaults)'  BY <2>1, <2>2, <4>1 DEF AzureInv, AzureTyped, SharedInv
      <4>3. QED  BY <2>2, <3>1, <4>2 DEF AzureInv, AzureTyped
    <3>3. AzureSound' /\ broker'.gone = broker.gone
      BY <2>2, <3>1 DEF AzureInv, AzureSound, A!Answered
    <3>4. QED  BY <3>2, <3>3 DEF AzureInv
  <2>3. CASE /\ client' = [client EXCEPT !.batch = Tail(@), !.atYield = FALSE, !.dead = <<copy>>]
             /\ broker' = [broker EXCEPT !.dead[copy.m] = @ + 1]
             /\ outcome' = A!Became("rejected", {copy.m}) /\ UNCHANGED faults
    <3>1. /\ outcome' \in [Msgs -> SUBSET Outcomes]
          /\ \A m \in Msgs : outcome[m] \subseteq outcome'[m]
          /\ "rejected" \in outcome'[copy.m]
      BY <1>2, <2>3, AzureTypes DEF A!Became, Outcomes
    <3>2. /\ client' \in [batch : Seq(AzureCopy), dead : Seq(AzureCopy),
                          deleting : SUBSET AzureCopy, atYield : BOOLEAN]
          /\ client'.dead = <<copy>> /\ client'.deleting = client.deleting
      <4>1. <<copy>> \in Seq(AzureCopy)  BY <1>1
      <4>2. Tail(client.batch) \in Seq(AzureCopy)  BY <1>1
      <4>3. QED  BY <2>3, <4>1, <4>2 DEF AzureInv, AzureTyped
    <3>3. [broker.dead EXCEPT ![copy.m] = @ + 1] \in [Msgs -> Nat]
      BY SMTT(30), <1>2 DEF AzureInv, AzureTyped
    <3>4. /\ broker' \in [reads : [Msgs -> 0..MaxReads], visible : SUBSET Msgs,
                          gone : SUBSET Msgs, dead : [Msgs -> Nat]]
          /\ broker'.gone = broker.gone
      BY <2>3, <3>3 DEF AzureInv, AzureTyped
    <3>5. AzureTyped'  BY <2>1, <2>3, <3>1, <3>2, <3>4 DEF AzureInv, AzureTyped, SharedInv
    <3>6. \A c \in client'.deleting : "ok" \in outcome'[c.m]
      BY <3>1, <3>2, AzureTypes DEF AzureInv, AzureSound
    <3>7. broker'.gone \subseteq A!Answered'
      BY <3>1, <3>4 DEF AzureInv, AzureSound, A!Answered
    <3>8. QED  BY <3>1, <3>2, <3>4, <3>5, <3>6, <3>7 DEF AzureInv, AzureSound
  <2>4. QED  BY Zenon, <1>4, <2>2, <2>3 DEF A!DeadLetter, copy
<1>5. QED  BY <1>3, <1>4

\* A deletion is of a message that was released or dead-lettered.
LEMMA AzureMarkInv ==
    ASSUME AzureInv, NEW copy \in AzureCopy, outcome[copy.m] \cap {"ok", "rejected"} # {},
           A!MarkAsProcessed(copy), UNCHANGED <<held, outcome, phase>>,
           NEW deleting \in SUBSET client.deleting, NEW dead \in {client.dead, <<>>},
           client' = [client EXCEPT !.deleting = deleting, !.dead = dead]
    PROVE  AzureInv' /\ broker.gone \subseteq broker'.gone
<1>1. /\ broker' \in [reads : [Msgs -> 0..MaxReads], visible : SUBSET Msgs, gone : SUBSET Msgs,
                       dead : [Msgs -> Nat]]
      /\ broker.gone \subseteq broker'.gone /\ broker'.gone \subseteq broker.gone \cup {copy.m}
  <2>1. CASE broker' = broker  BY <2>1 DEF AzureInv, AzureTyped
  <2>2. CASE broker' = [broker EXCEPT !.gone = @ \cup {copy.m}, !.visible = @ \ {copy.m}]
    BY <2>2, AzureTypes DEF AzureInv, AzureTyped
  <2>3. QED  BY <2>1, <2>2 DEF A!MarkAsProcessed, A!Deleted
<1>2. faults' \in 0..MaxFaults
  BY SourcesAssumption DEF AzureInv, AzureTyped, SharedInv, A!MarkAsProcessed, A!Fault
<1>3. client' \in [batch : Seq(AzureCopy), dead : Seq(AzureCopy),
                   deleting : SUBSET AzureCopy, atYield : BOOLEAN]
      /\ client'.deleting \subseteq client.deleting
      /\ (client'.dead = client.dead \/ client'.dead = <<>>)
  <2>1. dead \in Seq(AzureCopy) /\ deleting \in SUBSET AzureCopy
    <3>1. <<>> \in Seq(AzureCopy)  OBVIOUS
    <3>2. client.dead \in Seq(AzureCopy) /\ client.deleting \in SUBSET AzureCopy  BY AzureTypes
    <3>3. QED  BY <3>1, <3>2
  <2>2. QED  BY <2>1 DEF AzureInv, AzureTyped
<1>4. AzureTyped'  BY <1>1, <1>2, <1>3 DEF AzureInv, AzureTyped, SharedInv
<1>5. AzureSound'
  <2>1. \A c \in client'.deleting : "ok" \in outcome'[c.m]
    BY <1>3 DEF AzureInv, AzureSound
  <2>2. \A i \in DOMAIN client'.dead : "rejected" \in outcome'[client'.dead[i].m]
    BY <1>3 DEF AzureInv, AzureSound
  <2>3. broker'.gone \subseteq A!Answered'
    BY <1>1, AzureTypes DEF AzureInv, AzureSound, A!Answered
  <2>4. QED  BY <2>1, <2>2, <2>3 DEF AzureSound
<1>6. QED  BY <1>1, <1>4, <1>5 DEF AzureInv

\* The broker deletes a message, as processed or as a dead letter.
LEMMA AzureDeleteInv ==
    ASSUME AzureInv, A!DeleteDead \/ A!Delete
    PROVE  AzureInv' /\ broker.gone \subseteq broker'.gone
<1>1. CASE A!DeleteDead
  <2> DEFINE copy == client.dead[1]
  <2>1. copy \in AzureCopy /\ "rejected" \in outcome[copy.m]
    BY <1>1 DEF A!DeleteDead, AzureInv, AzureTyped, AzureSound
  <2>2. client' = [client EXCEPT !.deleting = client.deleting, !.dead = <<>>]
    BY <1>1 DEF A!DeleteDead, AzureInv, AzureTyped
  <2>3. QED  BY Zenon, <1>1, <2>1, <2>2, AzureMarkInv DEF A!DeleteDead
<1>2. CASE A!Delete
  <2>1. PICK copy \in client.deleting :
          /\ A!MarkAsProcessed(copy) /\ client' = [client EXCEPT !.deleting = @ \ {copy}]
          /\ UNCHANGED <<held, outcome, phase>>
    BY <1>2 DEF A!Delete
  <2>2. copy \in AzureCopy /\ "ok" \in outcome[copy.m]
    BY DEF AzureInv, AzureTyped, AzureSound
  <2>3. client' = [client EXCEPT !.deleting = client.deleting \ {copy}, !.dead = client.dead]
    BY <2>1 DEF AzureInv, AzureTyped
  <2>4. QED  BY Zenon, <2>1, <2>2, <2>3, AzureMarkInv
<1>3. QED  BY <1>1, <1>2

\* A release that reports no error is what a deletion is owed to.
LEMMA AzureReleasedInv == ASSUME AzureInv, A!Released PROVE AzureInv' /\ broker' = broker
<1>1. PICK i \in DOMAIN held, o \in {"ok", "err"} :
        /\ A!Release(i, o) /\ client' = A!Deletes(held[i], o = "err") /\ UNCHANGED <<broker, phase>>
  BY DEF A!Released
<1>2. /\ held' \in Seq(AzureCopy) /\ Len(held') <= MaxHeld /\ held[i] \in AzureCopy
  BY <1>1, HeldShrinks, InstanceOperators DEF AzureInv, AzureTyped, SharedInv, A!Release
<1>3. /\ outcome' \in [Msgs -> SUBSET Outcomes]
      /\ \A m \in Msgs : outcome[m] \subseteq outcome'[m]
      /\ o \in outcome'[held[i].m]
  BY <1>1, <1>2 DEF AzureInv, AzureTyped, SharedInv, A!Release, A!Became, Outcomes, AzureCopy
<1>4. faults' \in 0..MaxFaults
  BY SMTT(30), <1>1, SourcesAssumption DEF AzureInv, AzureTyped, SharedInv, A!Release, A!Fault
<1>5. /\ client' \in [batch : Seq(AzureCopy), dead : Seq(AzureCopy),
                       deleting : SUBSET AzureCopy, atYield : BOOLEAN]
      /\ client'.dead = client.dead
      /\ \A c \in client'.deleting : c \in client.deleting \/ (c = held[i] /\ o = "ok")
  BY <1>1, <1>2 DEF AzureInv, AzureTyped, A!Deletes
<1>6. AzureTyped'  BY <1>1, <1>2, <1>3, <1>4, <1>5 DEF AzureInv, AzureTyped, SharedInv
<1>7. \A c \in client'.deleting : "ok" \in outcome'[c.m]
  BY <1>3, <1>5 DEF AzureInv, AzureTyped, AzureSound, AzureCopy
<1>8. \A j \in DOMAIN client'.dead : "rejected" \in outcome'[client'.dead[j].m]
  <2>1. \A j \in DOMAIN client.dead : client.dead[j].m \in Msgs
    BY AzureTypes
  <2>2. QED  BY <1>3, <1>5, <2>1 DEF AzureInv, AzureSound
<1>9. broker'.gone \subseteq A!Answered'
  BY <1>1, <1>3 DEF AzureInv, AzureSound, A!Answered
<1>10. QED  BY <1>1, <1>6, <1>7, <1>8, <1>9 DEF AzureInv, AzureSound

\* A visibility timeout, stopping, and the death of the process, which forgets
\* what was to be deleted.
LEMMA AzureOtherInv ==
    ASSUME AzureInv, A!Reappear \/ A!Stop \/ A!End \/ A!Crash
    PROVE  AzureInv' /\ broker'.gone = broker.gone
<1> USE SourcesAssumption
<1>1. CASE A!Reappear
  <2>1. AzureTyped' /\ broker'.gone = broker.gone
    <3>1. PICK m \in Msgs : broker' = [broker EXCEPT !.visible = @ \cup {m}]
      BY <1>1 DEF A!Reappear
    <3>2. /\ broker' \in [reads : [Msgs -> 0..MaxReads], visible : SUBSET Msgs,
                          gone : SUBSET Msgs, dead : [Msgs -> Nat]]
          /\ broker'.gone = broker.gone
      BY <3>1 DEF AzureInv, AzureTyped
    <3>3. faults' \in 0..MaxFaults /\ UNCHANGED <<client, held, outcome, phase>>
      BY SMTT(30), <1>1 DEF A!Reappear, A!Fault, AzureInv, AzureTyped, SharedInv
    <3>4. QED  BY <3>2, <3>3 DEF AzureInv, AzureTyped, SharedInv
  <2>2. AzureSound'  BY <1>1, <2>1 DEF A!Reappear, AzureInv, AzureSound, A!Answered
  <2>3. QED  BY <2>1, <2>2 DEF AzureInv
<1>2. CASE A!Stop
  BY <1>2 DEF A!Stop, A!AskToStop, AzureInv, AzureTyped, SharedInv, AzureSound, A!Answered
<1>3. CASE A!End
  <2>1. AzureTyped'  BY <1>3 DEF A!End, AzureInv, AzureTyped, SharedInv
  <2>2. AzureSound' /\ broker'.gone = broker.gone
    BY <1>3 DEF A!End, AzureInv, AzureTyped, AzureSound, A!Answered
  <2>3. QED  BY <2>1, <2>2 DEF AzureInv
<1>4. CASE A!Crash
  <2>1. AzureTyped'
    BY <1>4 DEF A!Crash, A!Die, A!Fault, AzureInv, AzureTyped, SharedInv
  <2>2. AzureSound' /\ broker'.gone = broker.gone
    <3>1. client'.deleting = {} /\ client'.dead = <<>> /\ UNCHANGED <<broker, outcome>>
      BY <1>4 DEF A!Crash
    <3>2. QED  BY <3>1 DEF AzureInv, AzureSound, A!Answered
  <2>3. QED  BY <2>1, <2>2 DEF AzureInv
<1>5. QED  BY <1>1, <1>2, <1>3, <1>4

\* Every step keeps the invariant, and a deleted message stays deleted.
LEMMA AzureNextInv ==
    ASSUME AzureInv, A!Next
    PROVE  AzureInv' /\ A!Settled \subseteq A!Settled'
BY AzureReadInv, AzureHandInv, AzureDeleteInv, AzureReleasedInv, AzureOtherInv
   DEF A!Next, A!Progress, A!Settled

\* What the invariant says of the properties.
LEMMA AzureImplies == AzureInv => A!TypeOK /\ A!Settled \subseteq A!Answered
<1> SUFFICES ASSUME AzureInv PROVE A!TypeOK /\ A!Settled \subseteq A!Answered  OBVIOUS
<1>1. A!SharedTypeOK
  BY AzureTypes DEF AzureInv, AzureTyped, SharedInv, A!SharedTypeOK, A!Outcomes, Outcomes
<1>2. A!TypeOK
  BY <1>1, AzureTypes DEF A!TypeOK, AzureInv, AzureTyped, AzureCopy
<1>3. QED  BY <1>2 DEF AzureInv, AzureSound, A!Settled

-----------------------------------------------------------------------------
(* Redis streams: an entry leaves the list of pending entries only by XACK *)
(* of a message that was released without an error, of an entry without    *)
(* data, or by another consumer.                                           *)

RedisCopy == [m : Msgs]
RedisClient == [reading : {"own", "new"}, last : Nat, batch : Seq(Msgs), claiming : SUBSET Msgs,
                due : BOOLEAN, didRead : BOOLEAN, acks : SUBSET Msgs]

RedisTyped ==
    /\ SharedInv(RedisCopy, Msgs, RedisFaults)
    /\ broker \in [owner : [Msgs -> {"new", "me", "them", "acked"}], idle : SUBSET Msgs]
    /\ client \in RedisClient

RedisSound ==
    /\ \A m \in client.acks : "ok" \in outcome[m]
    /\ R!OwnedBy("acked") \subseteq R!Answered

RedisInv == RedisTyped /\ RedisSound

\* The types once more, as the steps below use them.
LEMMA RedisTypes ==
    ASSUME RedisInv
    PROVE  /\ client.batch \in Seq(Msgs) /\ client.claiming \in SUBSET Msgs
           /\ client.acks \in SUBSET Msgs
           /\ broker.owner \in [Msgs -> {"new", "me", "them", "acked"}]
           /\ broker.idle \in SUBSET Msgs
           /\ held \in Seq(RedisCopy) /\ (\A i \in DOMAIN held : held[i].m \in Msgs)
           /\ outcome \in [Msgs -> SUBSET Outcomes]
<1>1. /\ client.batch \in Seq(Msgs) /\ client.claiming \in SUBSET Msgs
      /\ client.acks \in SUBSET Msgs
  BY DEF RedisInv, RedisTyped, RedisClient
<1>2. /\ broker.owner \in [Msgs -> {"new", "me", "them", "acked"}]
      /\ broker.idle \in SUBSET Msgs
  BY DEF RedisInv, RedisTyped
<1>3. held \in Seq(RedisCopy) /\ outcome \in [Msgs -> SUBSET Outcomes]
  BY DEF RedisInv, RedisTyped, SharedInv
<1>4. \A i \in DOMAIN held : held[i].m \in Msgs
  <2>1. \A i \in DOMAIN held : held[i] \in RedisCopy  BY <1>3
  <2>2. QED  BY <2>1 DEF RedisCopy
<1>5. QED  BY <1>1, <1>2, <1>3, <1>4

\* The invariant holds at first.
LEMMA RedisInit == R!Init => RedisInv
<1> SUFFICES ASSUME R!Init PROVE RedisInv  OBVIOUS
<1>1. R!Fresh \in RedisClient  BY DEF R!Fresh, RedisClient
<1>2. RedisTyped
  BY <1>1, SourcesAssumption DEF R!Init, R!SharedInit, RedisTyped, SharedInv, Outcomes
<1>3. RedisSound
  BY DEF R!Init, R!SharedInit, R!Fresh, R!OwnedBy, RedisSound
<1>4. QED  BY <1>2, <1>3 DEF RedisInv

\* A read and a claim are of some of the entries they may be of.
LEMMA RedisFirst ==
    ASSUME NEW S \in SUBSET Msgs
    PROVE  R!First(S) \subseteq S /\ R!InOrder(S) \in Seq(S)
<1>1. R!InOrder(S) \in Seq(S)  BY InOrderProperties
<1> DEFINE s == R!InOrder(S)
           n == IF Len(s) < BatchSize THEN Len(s) ELSE BatchSize
<1>2. n \in 0..Len(s) /\ R!FirstOf(s, BatchSize) = SubSeq(s, 1, n)
  BY <1>1, SourcesAssumption DEF R!FirstOf
<1> HIDE DEF n
<1>3. SubSeq(s, 1, n) \in Seq(S)
  <2> HIDE DEF s
  <2>1. s \in Seq(S)  BY <1>1 DEF s
  <2>2. QED  BY <1>2, <2>1
<1>4. R!First(S) = ToSet(SubSeq(s, 1, n))  BY <1>2, InstanceOperators DEF R!First
<1> HIDE DEF s
<1>5. R!First(S) \subseteq S  BY <1>3, <1>4 DEF ToSet
<1>6. QED  BY <1>1, <1>5

\* Entries are read; those without data are acknowledged as rejected.
LEMMA RedisXReadGroupInv ==
    ASSUME RedisInv, NEW got \in SUBSET Msgs, \A m \in got : broker.owner[m] # "acked",
           NEW acked, R!XReadGroup(got, acked), UNCHANGED <<held, phase>>,
           client' \in RedisClient, client'.acks = client.acks
    PROVE  RedisInv' /\ R!Settled \subseteq R!Settled'
<1>1. acked \in SUBSET got  BY DEF R!XReadGroup, R!Parsed
<1>2. faults' \in 0..RedisFaults
  BY SourcesAssumption DEF R!XReadGroup, R!Fault, RedisInv, RedisTyped, SharedInv
<1> DEFINE owner == [m \in Msgs |-> IF m \in acked THEN "acked"
                                    ELSE IF m \in got THEN "me" ELSE broker.owner[m]]
<1>3. /\ broker' = [owner |-> owner, idle |-> broker.idle \ got]
      /\ outcome' = R!Became("rejected", acked)
  BY DEF R!XReadGroup
<1>4. owner \in [Msgs -> {"new", "me", "them", "acked"}] /\ broker.idle \ got \in SUBSET Msgs
  BY RedisTypes
<1>5. \A m \in Msgs : owner[m] = "acked" <=> broker.owner[m] = "acked" \/ m \in acked
  BY <1>1
<1> HIDE DEF owner
<1>6. /\ outcome' \in [Msgs -> SUBSET Outcomes]
      /\ \A m \in Msgs : outcome[m] \subseteq outcome'[m]
      /\ \A m \in acked : "rejected" \in outcome'[m]
  BY <1>1, <1>3, RedisTypes DEF R!Became, Outcomes
<1>7. RedisTyped'
  BY <1>2, <1>3, <1>4, <1>6 DEF RedisInv, RedisTyped, SharedInv
<1>8. \A m \in client'.acks : "ok" \in outcome'[m]
  BY <1>6, RedisTypes DEF RedisInv, RedisSound
<1>9. /\ R!OwnedBy("acked")' \subseteq R!Answered'
      /\ R!Settled \subseteq R!Settled'
  BY <1>3, <1>5, <1>6 DEF RedisInv, RedisSound, R!OwnedBy, R!Answered, R!Settled
<1>10. QED  BY <1>7, <1>8, <1>9 DEF RedisInv, RedisSound

\* Reading, of new entries or of the own pending ones.
LEMMA RedisReadInv ==
    ASSUME RedisInv, R!ReadOwn \/ R!ReadNew
    PROVE  RedisInv' /\ R!Settled \subseteq R!Settled'
<1>1. CASE R!ReadOwn
  <2> DEFINE got == R!First({m \in R!OwnedBy("me") : m > client.last})
  <2>1. got \in SUBSET R!OwnedBy("me")
    <3>1. {m \in R!OwnedBy("me") : m > client.last} \in SUBSET Msgs  BY DEF R!OwnedBy
    <3>2. QED  BY <3>1, RedisFirst
  <2>2. got \in SUBSET Msgs /\ \A m \in got : broker.owner[m] # "acked"
    BY <2>1 DEF R!OwnedBy
  <2>3. R!InOrder(R!Parsed(got)) \in Seq(Msgs)
    <3>1. R!Parsed(got) \in SUBSET Msgs  BY <2>2 DEF R!Parsed
    <3>2. R!InOrder(R!Parsed(got)) \in Seq(R!Parsed(got))  BY <3>1, RedisFirst
    <3>3. QED  BY <3>1, <3>2
  <2>4. PICK acked : /\ R!XReadGroup(got, acked) /\ UNCHANGED <<held, phase>>
                     /\ client' = IF R!Parsed(got) = {} THEN [client EXCEPT !.reading = "new"]
                                  ELSE [client EXCEPT !.batch = R!InOrder(R!Parsed(got))]
    BY <1>1 DEF R!ReadOwn
  <2> HIDE DEF got
  <2>5. client' \in RedisClient /\ client'.acks = client.acks
    BY <2>3, <2>4 DEF RedisInv, RedisTyped, RedisClient
  <2>6. QED  BY <2>2, <2>4, <2>5, RedisXReadGroupInv
<1>2. CASE R!ReadNew
  <2> DEFINE got == R!First(R!OwnedBy("new"))
  <2>1. got \in SUBSET R!OwnedBy("new")
    <3>1. R!OwnedBy("new") \in SUBSET Msgs  BY DEF R!OwnedBy
    <3>2. QED  BY <3>1, RedisFirst
  <2>2. got \in SUBSET Msgs /\ \A m \in got : broker.owner[m] # "acked"
    BY <2>1 DEF R!OwnedBy
  <2>3. R!InOrder(R!Parsed(got)) \in Seq(Msgs)
    <3>1. R!Parsed(got) \in SUBSET Msgs  BY <2>2 DEF R!Parsed
    <3>2. R!InOrder(R!Parsed(got)) \in Seq(R!Parsed(got))  BY <3>1, RedisFirst
    <3>3. QED  BY <3>1, <3>2
  <2>4. PICK acked :
          /\ R!XReadGroup(got, acked) /\ UNCHANGED <<held, phase>>
          /\ client' = [client EXCEPT !.batch = R!InOrder(R!Parsed(got)), !.didRead = TRUE]
    BY <1>2 DEF R!ReadNew
  <2> HIDE DEF got
  <2>5. client' \in RedisClient /\ client'.acks = client.acks
    BY <2>3, <2>4 DEF RedisInv, RedisTyped, RedisClient
  <2>6. QED  BY <2>2, <2>4, <2>5, RedisXReadGroupInv
<1>3. QED  BY <1>1, <1>2

\* Steps of the source alone, that send no acknowledgement.
LEMMA RedisQuietInv ==
    ASSUME RedisInv, UNCHANGED <<broker, outcome>>,
           client' \in RedisClient, client'.acks \in SUBSET client.acks,
           held' \in Seq(RedisCopy), Len(held') <= MaxHeld,
           phase' \in {"run", "stop", "end"}, faults' \in 0..RedisFaults
    PROVE  RedisInv' /\ R!Settled \subseteq R!Settled'
<1>1. RedisTyped'  BY DEF RedisInv, RedisTyped, SharedInv
<1>2. RedisSound' /\ R!Settled \subseteq R!Settled'
  BY DEF RedisInv, RedisSound, R!OwnedBy, R!Answered, R!Settled
<1>3. QED  BY <1>1, <1>2 DEF RedisInv

\* The steps of the source that acknowledge nothing.
LEMMA RedisSourceInv ==
    ASSUME RedisInv, R!XPending \/ R!Yield \/ R!Due \/ R!Stop \/ R!End \/ R!Crash
    PROVE  RedisInv' /\ R!Settled \subseteq R!Settled'
<1> USE SourcesAssumption
<1>0. /\ client \in RedisClient /\ held \in Seq(RedisCopy) /\ Len(held) <= MaxHeld
      /\ phase \in {"run", "stop", "end"} /\ faults \in 0..RedisFaults
  BY DEF RedisInv, RedisTyped, SharedInv
<1>1. CASE R!XPending
  <2>1. R!Pending \in SUBSET Msgs  BY DEF R!Pending, R!OwnedBy
  <2>2. R!First(R!Pending) \in SUBSET Msgs  BY <2>1, RedisFirst
  <2>3. client' \in RedisClient /\ client'.acks = client.acks
    BY <1>0, <1>1, <2>2 DEF R!XPending, R!Drained, RedisClient
  <2>4. QED  BY <1>0, <1>1, <2>3, RedisQuietInv DEF R!XPending
<1>2. CASE R!Yield
  <2>1. /\ client.batch # <<>> /\ Len(held) < MaxHeld
        /\ held' = Append(held, [m |-> Head(client.batch)])
    BY <1>2 DEF R!Yield, R!Hand
  <2>2. Head(client.batch) \in Msgs /\ Tail(client.batch) \in Seq(Msgs)  BY <2>1, RedisTypes
  <2>3. Head(client.batch) \in Nat
    <3>1. N \in Nat  OBVIOUS
    <3>2. QED  BY <2>2, <3>1 DEF Msgs
  <2>4. client' \in RedisClient /\ client'.acks = client.acks
    BY <1>0, <1>2, <2>2, <2>3 DEF R!Yield, RedisClient
  <2>5. held' \in Seq(RedisCopy) /\ Len(held') <= MaxHeld
    <3>1. [m |-> Head(client.batch)] \in RedisCopy  BY <2>2 DEF RedisCopy
    <3>2. QED  BY <1>0, <2>1, <3>1
  <2>6. QED  BY <1>0, <1>2, <2>4, <2>5, RedisQuietInv DEF R!Yield
<1>3. CASE R!Due
  <2>1. client' \in RedisClient /\ client'.acks = client.acks
    BY <1>0, <1>3 DEF R!Due, RedisClient
  <2>2. QED  BY <1>0, <1>3, <2>1, RedisQuietInv DEF R!Due
<1>4. CASE R!Stop
  BY <1>0, <1>4, RedisQuietInv DEF R!Stop, R!AskToStop
<1>5. CASE R!End
  BY <1>0, <1>5, RedisQuietInv DEF R!End
<1>6. CASE R!Crash
  <2>1. /\ client' \in RedisClient /\ client'.acks = {} /\ held' = <<>>
        /\ faults' \in 0..RedisFaults /\ UNCHANGED <<broker, outcome, phase>>
    BY <1>0, <1>6 DEF R!Crash, R!Die, R!Fault, R!Fresh, RedisClient
  <2>2. held' \in Seq(RedisCopy) /\ Len(held') <= MaxHeld  BY <2>1
  <2>3. QED  BY <1>0, <2>1, <2>2, RedisQuietInv
<1>7. QED  BY <1>1, <1>2, <1>3, <1>4, <1>5, <1>6

\* Steps that change to whom entries belong, and acknowledge none.
LEMMA RedisMoveInv ==
    ASSUME RedisInv, UNCHANGED outcome,
           NEW owner \in [Msgs -> {"new", "me", "them", "acked"}], NEW idle \in SUBSET Msgs,
           \A m \in Msgs : owner[m] = "acked" <=> broker.owner[m] = "acked",
           broker' = [owner |-> owner, idle |-> idle],
           client' \in RedisClient, client'.acks \in SUBSET client.acks,
           held' \in {held, <<>>}, phase' \in {"run", "stop", "end"}, UNCHANGED faults
    PROVE  RedisInv' /\ R!Settled \subseteq R!Settled'
<1>1. held' \in Seq(RedisCopy) /\ Len(held') <= MaxHeld
  <2>1. <<>> \in Seq(RedisCopy) /\ Len(<<>>) <= MaxHeld  BY SourcesAssumption
  <2>2. QED  BY <2>1 DEF RedisInv, RedisTyped, SharedInv
<1>2. RedisTyped'  BY <1>1 DEF RedisInv, RedisTyped, SharedInv
<1>3. RedisSound' /\ R!Settled \subseteq R!Settled'
  BY DEF RedisInv, RedisSound, R!OwnedBy, R!Answered, R!Settled
<1>4. QED  BY <1>2, <1>3 DEF RedisInv

\* Claiming of idle entries, and the other consumers.
LEMMA RedisGroupInv ==
    ASSUME RedisInv, R!XClaim \/ R!CrashOnClaim \/ R!Idle \/ R!OtherReads
    PROVE  RedisInv' /\ R!Settled \subseteq R!Settled'
<1>0. /\ client \in RedisClient /\ phase \in {"run", "stop", "end"}
      /\ broker.owner \in [Msgs -> {"new", "me", "them", "acked"}] /\ broker.idle \in SUBSET Msgs
      /\ broker = [owner |-> broker.owner, idle |-> broker.idle]
  BY RedisTypes DEF RedisInv, RedisTyped, SharedInv
<1> DEFINE got == R!Claimable(client.claiming)
           owner == R!Owned("me", got)
<1>1. got \in SUBSET Msgs /\ \A m \in got : broker.owner[m] \in {"me", "them"}
  BY DEF R!Claimable, R!Pending, R!OwnedBy
<1>2. /\ owner \in [Msgs -> {"new", "me", "them", "acked"}] /\ broker.idle \ got \in SUBSET Msgs
      /\ \A m \in Msgs : owner[m] = "acked" <=> broker.owner[m] = "acked"
  BY <1>0, <1>1 DEF R!Owned
<1>3. CASE R!XClaim
  <2>1. R!InOrder(got) \in Seq(Msgs)
    <3>1. R!InOrder(got) \in Seq(got)  BY <1>1, RedisFirst
    <3>2. QED  BY <1>1, <3>1
  <2>2. /\ broker' = [owner |-> owner, idle |-> broker.idle \ got]
        /\ UNCHANGED <<held, outcome, phase, faults>>
    BY <1>3 DEF R!XClaim
  <2>3. client' \in RedisClient /\ client'.acks = client.acks
    <3> HIDE DEF got
    <3> DEFINE c == [client EXCEPT !.claiming = {}, !.batch = R!InOrder(got)]
    <3>1. c \in RedisClient /\ c.acks = client.acks
      BY <1>0, <2>1 DEF RedisClient
    <3>2. client' = IF got = {} THEN R!Drained(c) ELSE c
      BY <1>3 DEF R!XClaim, got
    <3> HIDE DEF c
    <3>3. QED  BY <3>1, <3>2 DEF R!Drained, RedisClient
  <2> HIDE DEF got, owner
  <2>4. QED  BY <1>0, <1>2, <2>2, <2>3, RedisMoveInv
<1>4. CASE R!CrashOnClaim
  <2>1. /\ broker' = [owner |-> owner, idle |-> broker.idle \ got]
        /\ client' = R!Fresh /\ held' = <<>> /\ phase' \in {"run", "stop", "end"}
        /\ UNCHANGED <<outcome, faults>>
    BY <1>0, <1>4 DEF R!CrashOnClaim
  <2>2. client' \in RedisClient /\ client'.acks = {}
    BY <2>1 DEF R!Fresh, RedisClient
  <2> HIDE DEF got, owner
  <2>3. QED  BY <1>2, <2>1, <2>2, RedisMoveInv
<1>5. CASE R!Idle
  <2>1. PICK m \in R!Pending : broker' = [broker EXCEPT !.idle = @ \cup {m}]
    BY <1>5 DEF R!Idle
  <2>2. m \in Msgs  BY DEF R!Pending, R!OwnedBy
  <2>3. broker' = [owner |-> broker.owner, idle |-> broker.idle \cup {m}]
    BY <1>0, <2>1
  <2>4. QED  BY <1>0, <1>5, <2>2, <2>3, RedisMoveInv DEF R!Idle
<1>6. CASE R!OtherReads
  <2>1. PICK m \in R!OwnedBy("new") : broker' = [broker EXCEPT !.owner[m] = "them"]
    BY <1>6 DEF R!OtherReads
  <2>2. m \in Msgs /\ broker.owner[m] = "new"  BY DEF R!OwnedBy
  <2> DEFINE moved == [broker.owner EXCEPT ![m] = "them"]
  <2>3. /\ moved \in [Msgs -> {"new", "me", "them", "acked"}]
        /\ \A n \in Msgs : moved[n] = "acked" <=> broker.owner[n] = "acked"
    BY <1>0, <2>2
  <2>4. broker' = [owner |-> moved, idle |-> broker.idle]
    BY <1>0, <2>1
  <2> HIDE DEF moved
  <2>5. QED  BY <1>0, <1>6, <2>3, <2>4, RedisMoveInv DEF R!OtherReads
<1>7. QED  BY <1>3, <1>4, <1>5, <1>6

\* An acknowledgement, ours or another consumer's.
LEMMA RedisAckInv ==
    ASSUME RedisInv, R!XAck \/ R!OtherAcks
    PROVE  RedisInv' /\ R!Settled \subseteq R!Settled'
<1>0. /\ client \in RedisClient
      /\ broker.owner \in [Msgs -> {"new", "me", "them", "acked"}] /\ broker.idle \in SUBSET Msgs
      /\ broker = [owner |-> broker.owner, idle |-> broker.idle]
  BY RedisTypes DEF RedisInv, RedisTyped, SharedInv
<1>1. ASSUME NEW m \in Msgs, NEW acks \in SUBSET client.acks,
             client' = [client EXCEPT !.acks = acks], UNCHANGED <<held, phase>>,
             outcome' \in [Msgs -> SUBSET Outcomes],
             \A n \in Msgs : outcome[n] \subseteq outcome'[n],
             outcome'[m] \cap {"ok", "rejected", "other"} # {},
             broker' = [broker EXCEPT !.owner[m] = "acked"], UNCHANGED faults
      PROVE  RedisInv' /\ R!Settled \subseteq R!Settled'
  <2> DEFINE owner == [broker.owner EXCEPT ![m] = "acked"]
  <2>1. /\ owner \in [Msgs -> {"new", "me", "them", "acked"}]
        /\ \A n \in Msgs : owner[n] = "acked" <=> broker.owner[n] = "acked" \/ n = m
    BY <1>0
  <2>2. broker' = [owner |-> owner, idle |-> broker.idle]  BY <1>0, <1>1
  <2> HIDE DEF owner
  <2>3. client' \in RedisClient /\ client'.acks = acks
    BY <1>0, <1>1, RedisTypes DEF RedisClient
  <2>4. RedisTyped'
    BY <1>0, <1>1, <2>1, <2>2, <2>3 DEF RedisInv, RedisTyped, SharedInv
  <2>5. \A n \in client'.acks : "ok" \in outcome'[n]
    BY <1>1, <2>3, RedisTypes DEF RedisInv, RedisSound
  <2>6. R!OwnedBy("acked")' \subseteq R!Answered' /\ R!Settled \subseteq R!Settled'
    BY <1>1, <2>1, <2>2 DEF RedisInv, RedisSound, R!OwnedBy, R!Answered, R!Settled
  <2>7. QED  BY <2>4, <2>5, <2>6 DEF RedisInv, RedisSound
<1>2. CASE R!XAck
  <2>1. PICK m \in client.acks :
          /\ client' = [client EXCEPT !.acks = @ \ {m}] /\ UNCHANGED <<held, outcome, phase>>
          /\ \/ R!Fault /\ UNCHANGED broker
             \/ broker' = [broker EXCEPT !.owner[m] = "acked"] /\ UNCHANGED faults
    BY <1>2 DEF R!XAck
  <2>2. m \in Msgs /\ "ok" \in outcome[m] /\ client.acks \ {m} \in SUBSET client.acks
    BY RedisTypes DEF RedisInv, RedisSound
  <2>3. CASE R!Fault /\ UNCHANGED broker
    <3>1. client' \in RedisClient /\ client'.acks \in SUBSET client.acks
      BY <1>0, <2>1 DEF RedisClient
    <3>2. faults' \in 0..RedisFaults
      BY <2>3, SourcesAssumption DEF R!Fault, RedisInv, RedisTyped, SharedInv
    <3>3. QED  BY <2>1, <2>3, <3>1, <3>2, RedisQuietInv DEF RedisInv, RedisTyped, SharedInv
  <2>4. CASE broker' = [broker EXCEPT !.owner[m] = "acked"] /\ UNCHANGED faults
    BY <1>1, <2>1, <2>2, <2>4, RedisTypes
  <2>5. QED  BY <2>1, <2>3, <2>4
<1>3. CASE R!OtherAcks
  <2>1. PICK m \in R!OwnedBy("them") :
          /\ broker' = [broker EXCEPT !.owner[m] = "acked"] /\ outcome' = R!Became("other", {m})
          /\ UNCHANGED <<client, held, phase, faults>>
    BY <1>3 DEF R!OtherAcks
  <2>2. m \in Msgs  BY DEF R!OwnedBy
  <2>3. /\ outcome' \in [Msgs -> SUBSET Outcomes]
        /\ \A n \in Msgs : outcome[n] \subseteq outcome'[n]
        /\ "other" \in outcome'[m]
    BY <2>1, <2>2, RedisTypes DEF R!Became, Outcomes
  <2>4. client' = [client EXCEPT !.acks = client.acks] /\ client.acks \in SUBSET client.acks
    BY <1>0, <2>1 DEF RedisClient
  <2>5. QED  BY Zenon, <1>1, <2>1, <2>2, <2>3, <2>4
<1>4. QED  BY <1>2, <1>3

\* A release: one that reports no error is to be acknowledged.
LEMMA RedisReleasedInv ==
    ASSUME RedisInv, R!Released
    PROVE  RedisInv' /\ R!Settled \subseteq R!Settled'
<1>1. PICK i \in DOMAIN held, o \in {"ok", "err"} :
        R!Release(i, o) /\ R!Acks(held[i].m, o = "err") /\ UNCHANGED <<broker, phase>>
  BY DEF R!Released
<1>2. held' \in Seq(RedisCopy) /\ Len(held') <= MaxHeld /\ held[i].m \in Msgs
  BY <1>1, HeldShrinks, InstanceOperators, RedisTypes
     DEF RedisInv, RedisTyped, SharedInv, R!Release
<1>3. /\ outcome' \in [Msgs -> SUBSET Outcomes]
      /\ \A m \in Msgs : outcome[m] \subseteq outcome'[m]
      /\ o \in outcome'[held[i].m]
  BY <1>1, <1>2, RedisTypes DEF R!Release, R!Became, Outcomes
<1>4. faults' \in 0..RedisFaults
  BY <1>1, SourcesAssumption DEF RedisInv, RedisTyped, SharedInv, R!Release, R!Fault
<1>5. /\ client' \in RedisClient
      /\ \A m \in client'.acks : m \in client.acks \/ (m = held[i].m /\ o = "ok")
  <2>1. client \in RedisClient  BY DEF RedisInv, RedisTyped
  <2>2. CASE o = "err"  BY <1>1, <2>1, <2>2 DEF R!Acks
  <2>3. CASE o = "ok"
    <3>1. client' = [client EXCEPT !.acks = @ \cup {held[i].m}]  BY <1>1, <2>3 DEF R!Acks
    <3>2. QED  BY <1>2, <2>1, <2>3, <3>1 DEF RedisClient
  <2>4. QED  BY <2>2, <2>3
<1>6. RedisTyped'  BY <1>1, <1>2, <1>3, <1>4, <1>5 DEF RedisInv, RedisTyped, SharedInv
<1>7. \A m \in client'.acks : "ok" \in outcome'[m]
  BY <1>3, <1>5, RedisTypes DEF RedisInv, RedisSound
<1>8. R!OwnedBy("acked")' \subseteq R!Answered' /\ R!Settled \subseteq R!Settled'
  BY <1>1, <1>3 DEF RedisInv, RedisSound, R!OwnedBy, R!Answered, R!Settled
<1>9. QED  BY <1>6, <1>7, <1>8 DEF RedisInv, RedisSound

\* Every step keeps the invariant, and what is acknowledged stays so.
LEMMA RedisNextInv ==
    ASSUME RedisInv, R!Next
    PROVE  RedisInv' /\ R!Settled \subseteq R!Settled'
BY RedisReadInv, RedisSourceInv, RedisGroupInv, RedisAckInv, RedisReleasedInv
   DEF R!Next, R!Progress

\* What the invariant says of the properties.
LEMMA RedisImplies == RedisInv => R!TypeOK /\ R!Settled \subseteq R!Answered
<1> SUFFICES ASSUME RedisInv PROVE R!TypeOK /\ R!Settled \subseteq R!Answered  OBVIOUS
<1>1. R!SharedTypeOK
  BY RedisTypes DEF RedisInv, RedisTyped, SharedInv, R!SharedTypeOK, R!Outcomes, Outcomes
<1>2. R!TypeOK
  BY <1>1 DEF R!TypeOK, RedisInv, RedisTyped, RedisClient
<1>3. QED  BY <1>2 DEF RedisInv, RedisSound, R!Settled

-----------------------------------------------------------------------------
(* The sources with a queue.  What they keep of the messages is one line:  *)
(* the copies handed out, the queue, and the calls that wait to enqueue.   *)
(* A message joins the line at its end; the line of AmqpSource and         *)
(* MqttSubscriberSource is ascending, and below what is still to come.     *)

PushCopy == [m : Msgs]
PushBroker == [ready : Seq(Msgs), leased : SUBSET Msgs, gone : SUBSET Msgs]
PushClient == [kind : Kinds, queue : Seq(Msgs), parked : Seq(Msgs)]

Handed == [i \in 1..Len(held) |-> held[i].m]
Line == Handed \o (client.queue \o client.parked)

PushTyped ==
    /\ SharedInv(PushCopy, Msgs, MaxFaults)
    /\ broker \in PushBroker /\ client \in PushClient
    /\ Len(client.queue) <= Capacity
    /\ client.parked # <<>> => Len(client.queue) = Capacity

\* A message is to be delivered, leased or gone.
PushPlaces ==
    /\ \A i, j \in DOMAIN broker.ready : i # j => broker.ready[i] # broker.ready[j]
    /\ \A i \in DOMAIN broker.ready : broker.ready[i] \notin broker.leased \cup broker.gone
    /\ broker.leased \cap broker.gone = {}

\* MQTT takes a message for delivered while it is in the line.
PushSound ==
    broker.gone \subseteq P!Answered \cup (IF client.kind = "mqtt" THEN ToSet(Line) ELSE {})

PushOrdered == client.kind # "pubsub" =>
    /\ Increasing(Line) /\ Increasing(broker.ready)
    /\ \A x \in ToSet(Line), y \in ToSet(broker.ready) : x < y
    /\ phase = "run" \/ client.kind # "amqp" =>
          \A x \in ToSet(Line) : \A m \in 1..(x - 1) : m \in P!Answered \cup ToSet(Line)
    /\ phase = "run" => Msgs \subseteq P!Answered \cup ToSet(Line) \cup ToSet(broker.ready)
    /\ client.kind = "amqp" => Msgs \subseteq P!Answered \cup broker.leased \cup ToSet(broker.ready)

PushInv == PushTyped /\ PushPlaces /\ PushSound /\ PushOrdered

\* The types once more, as the steps below use them.
LEMMA PushTypes ==
    ASSUME PushTyped
    PROVE  /\ client.queue \in Seq(Msgs) /\ client.parked \in Seq(Msgs) /\ client.kind \in Kinds
           /\ client.kind \in {"amqp", "pubsub", "mqtt"}
           /\ broker.ready \in Seq(Msgs) /\ broker.leased \in SUBSET Msgs
           /\ broker.gone \in SUBSET Msgs
           /\ held \in Seq(PushCopy) /\ (\A i \in DOMAIN held : held[i].m \in Msgs)
           /\ outcome \in [Msgs -> SUBSET Outcomes] /\ Msgs \in SUBSET Nat
           /\ client = [kind |-> client.kind, queue |-> client.queue, parked |-> client.parked]
           /\ broker = [ready |-> broker.ready, leased |-> broker.leased, gone |-> broker.gone]
<1>1. /\ client.queue \in Seq(Msgs) /\ client.parked \in Seq(Msgs) /\ client.kind \in Kinds
      /\ broker.ready \in Seq(Msgs) /\ broker.leased \in SUBSET Msgs /\ broker.gone \in SUBSET Msgs
      /\ client = [kind |-> client.kind, queue |-> client.queue, parked |-> client.parked]
      /\ broker = [ready |-> broker.ready, leased |-> broker.leased, gone |-> broker.gone]
  BY DEF PushTyped, PushClient, PushBroker
<1>2. held \in Seq(PushCopy) /\ outcome \in [Msgs -> SUBSET Outcomes]
  BY DEF PushTyped, SharedInv
<1>3. \A i \in DOMAIN held : held[i].m \in Msgs
  <2>1. \A i \in DOMAIN held : held[i] \in PushCopy  BY <1>2
  <2>2. QED  BY <2>1 DEF PushCopy
<1>4. client.kind \in {"amqp", "pubsub", "mqtt"} /\ Msgs \in SUBSET Nat
  BY <1>1, SourcesAssumption, AdaptersAssumption DEF Msgs
<1>5. QED  BY <1>1, <1>2, <1>3, <1>4

\* The line is what P!InClient says is in the client.
LEMMA LineProperties ==
    ASSUME PushTyped
    PROVE  /\ Handed \in Seq(Msgs) /\ Len(Handed) = Len(held)
           /\ Line \in Seq(Msgs) /\ Line \in Seq(Nat) /\ ToSet(Line) = P!InClient
           /\ Line = (Handed \o client.queue) \o client.parked
           /\ \A i \in DOMAIN held : i \in DOMAIN Line /\ Line[i] = held[i].m
           /\ ToSet(Line) \in SUBSET Msgs
<1>1. Len(held) \in Nat /\ DOMAIN held = 1..Len(held)  BY PushTypes
<1>2. Handed \in Seq(Msgs) /\ Len(Handed) = Len(held)
  BY <1>1, PushTypes DEF Handed
<1> DEFINE rest == client.queue \o client.parked
<1>3. rest \in Seq(Msgs) /\ ToSet(rest) = ToSet(client.queue) \cup ToSet(client.parked)
  BY PushTypes, ToSetConcat, ConcatProperties
<1> HIDE DEF rest
<1>4. /\ Line \in Seq(Msgs) /\ ToSet(Line) = ToSet(Handed) \cup ToSet(rest)
      /\ \A i \in 1..Len(held) : i \in DOMAIN Line /\ Line[i] = Handed[i]
  <2>1. Line = Handed \o rest  BY DEF Line, rest
  <2>2. /\ Line \in Seq(Msgs) /\ Len(Line) = Len(Handed) + Len(rest)
        /\ \A i \in 1..Len(Handed) + Len(rest) :
              Line[i] = IF i <= Len(Handed) THEN Handed[i] ELSE rest[i - Len(Handed)]
    BY <1>2, <1>3, <2>1, ConcatProperties
  <2>3. ToSet(Line) = ToSet(Handed) \cup ToSet(rest)  BY <1>2, <1>3, <2>1, ToSetConcat
  <2>4. Len(rest) \in Nat  BY <1>3
  <2>5. ASSUME NEW i \in 1..Len(held) PROVE i \in DOMAIN Line /\ Line[i] = Handed[i]
    BY <1>1, <1>2, <2>2, <2>4
  <2>6. QED  BY <2>2, <2>3, <2>5
<1>5. ToSet(Handed) = {held[i].m : i \in DOMAIN held}
  BY <1>1, <1>2 DEF Handed, ToSet
<1>6. \A i \in DOMAIN held : Handed[i] = held[i].m  BY <1>1 DEF Handed
<1>7. ToSet(Line) = P!InClient
  BY <1>3, <1>4, <1>5, InstanceOperators DEF P!InClient
<1>8. Line \in Seq(Nat)
  BY <1>4, PushTypes, SeqMonotonic
<1>9. Line = (Handed \o client.queue) \o client.parked
  <2>1. client.queue \in Seq(Msgs) /\ client.parked \in Seq(Msgs)  BY PushTypes
  <2>2. \A s, t, u \in Seq(Msgs) : (s \o t) \o u = s \o (t \o u)  BY ConcatAssociative
  <2>3. (Handed \o client.queue) \o client.parked = Handed \o (client.queue \o client.parked)
    BY <1>2, <2>1, <2>2
  <2>4. QED  BY <2>3 DEF Line
<1>10. ToSet(Line) \in SUBSET Msgs  BY <1>4 DEF ToSet
<1>11. QED  BY <1>1, <1>2, <1>4, <1>6, <1>7, <1>8, <1>9, <1>10

\* The invariant holds at first.
LEMMA PushInit == P!Init => PushInv
<1> SUFFICES ASSUME P!Init PROVE PushInv  OBVIOUS
<1> USE SourcesAssumption
<1>1. PICK k \in Kinds :
        /\ client = [kind |-> k, queue |-> <<>>, parked |-> <<>>]
        /\ broker = [ready |-> A!InOrder(Msgs), leased |-> {}, gone |-> {}]
        /\ held = <<>> /\ outcome = [m \in Msgs |-> {}] /\ phase = "run" /\ faults = 0
  BY InOrderProperties DEF P!Init, P!SharedInit
<1>2. /\ A!InOrder(Msgs) \in Seq(Msgs) /\ ToSet(A!InOrder(Msgs)) = Msgs
      /\ Increasing(A!InOrder(Msgs))
  BY InOrderProperties DEF IsAscending, Increasing
<1>3. PushTyped
  BY <1>1, <1>2 DEF PushTyped, SharedInv, PushClient, PushBroker, Outcomes
<1>4. PushPlaces
  <2>1. \A i, j \in DOMAIN broker.ready : i # j => broker.ready[i] # broker.ready[j]
    <3> DEFINE s == A!InOrder(Msgs)
    <3> HIDE DEF s
    <3>1. s \in Seq(Nat) /\ Increasing(s)  BY <1>2, <1>3, PushTypes, SeqMonotonic DEF s
    <3>2. \A i, j \in 1..Len(s) : i # j => s[i] # s[j]
      <4> SUFFICES ASSUME NEW i \in 1..Len(s), NEW j \in 1..Len(s), i # j PROVE s[i] # s[j]
        OBVIOUS
      <4>1. s[i] \in Nat /\ s[j] \in Nat /\ (i < j \/ j < i)  BY SMTT(30), <3>1
      <4>2. s[i] < s[j] \/ s[j] < s[i]  BY SMTT(30), <3>1, <4>1 DEF Increasing
      <4>3. QED  BY <4>1, <4>2
    <3>3. broker.ready = s /\ DOMAIN s = 1..Len(s)  BY <1>1, <3>1 DEF s
    <3>4. QED  BY <3>2, <3>3
  <2>2. QED  BY <1>1, <2>1 DEF PushPlaces
<1>5. PushSound  BY <1>1 DEF PushSound
<1>6. PushOrdered
  <2>1. Line = <<>>
    <3>1. client.queue = <<>> /\ client.parked = <<>> /\ Len(held) = 0  BY <1>1
    <3>2. Handed = <<>>  BY <1>3, <3>1, LineProperties, EmptySeq
    <3>3. QED  BY <3>1, <3>2 DEF Line
  <2>2. ToSet(Line) = {} /\ Increasing(Line)  BY <2>1 DEF ToSet, Increasing
  <2>3. QED  BY <1>1, <1>2, <2>2 DEF PushOrdered
<1>7. QED  BY <1>3, <1>4, <1>5, <1>6 DEF PushInv

\* Enqueueing puts a message at the end of the line.
LEMMA PushEnqueued ==
    ASSUME PushTyped, NEW m \in Msgs, client' = P!Enqueued(m), held' = held
    PROVE  /\ client' \in PushClient /\ client'.kind = client.kind
           /\ Len(client'.queue) <= Capacity
           /\ (client'.parked # <<>> => Len(client'.queue) = Capacity)
           /\ Line' = Append(Line, m)
<1> DEFINE q == client.queue
           p == client.parked
           H == Handed
<1>1. /\ q \in Seq(Msgs) /\ p \in Seq(Msgs) /\ H \in Seq(Msgs)
      /\ client = [kind |-> client.kind, queue |-> q, parked |-> p] /\ client.kind \in Kinds
      /\ Capacity \in Nat /\ Len(q) <= Capacity /\ (p # <<>> => Len(q) = Capacity)
      /\ Line = H \o (q \o p)
  BY PushTypes, LineProperties, SourcesAssumption DEF PushTyped, Line
<1>2. H' = H  BY DEF Handed
<1>3. CASE Len(q) < Capacity
  <2>1. client' = [kind |-> client.kind, queue |-> Append(q, m), parked |-> p]
    BY <1>1, <1>3 DEF P!Enqueued
  <2>2. p = <<>>  BY <1>1, <1>3
  <2> DEFINE q1 == Append(q, m)
  <2>3. q1 \in Seq(Msgs) /\ Len(q1) = Len(q) + 1  BY <1>1, AppendProperties
  <2>4. Line' = H \o (q1 \o <<>>)  BY SMTT(30), <1>2, <2>1, <2>2 DEF Line
  <2>5. q1 \o <<>> = q1 /\ q \o <<>> = q  BY <1>1, <2>3, ConcatEmptySeq
  <2>6. H \o q1 = Append(H \o q, m)
    <3> HIDE DEF q, H
    <3>1. QED  BY SMTT(30), <1>1, AppendConcat
  <2>7. Line' = Append(Line, m)  BY <1>1, <2>2, <2>4, <2>5, <2>6
  <2> HIDE DEF q1
  <2>8. /\ client' \in PushClient /\ client'.kind = client.kind /\ client'.queue = q1
        /\ client'.parked = <<>>
    BY <1>1, <2>1, <2>2, <2>3 DEF PushClient, q1
  <2>9. Len(q1) <= Capacity  BY <1>1, <1>3, <2>3
  <2>10. QED  BY <2>7, <2>8, <2>9
<1>4. CASE ~(Len(q) < Capacity)
  <2> DEFINE p1 == Append(p, m)
  <2>1. client' = [kind |-> client.kind, queue |-> q, parked |-> p1]
    BY <1>1, <1>4 DEF P!Enqueued
  <2>2. p1 \in Seq(Msgs)  BY <1>1, AppendProperties
  <2>3. Line' = H \o (q \o p1)
    <3>1. client'.queue = q /\ client'.parked = p1  BY <2>1
    <3>2. Line' = H' \o (client'.queue \o client'.parked)  BY DEF Line
    <3>3. QED  BY <1>2, <3>1, <3>2
  <2>4. q \o p \in Seq(Msgs) /\ q \o p1 = Append(q \o p, m)
    <3> HIDE DEF q, p
    <3>1. QED  BY <1>1, AppendConcat, ConcatProperties
  <2>5. H \o Append(q \o p, m) = Append(H \o (q \o p), m)
    <3> DEFINE r == q \o p
    <3>1. r \in Seq(Msgs)  BY <2>4
    <3> HIDE DEF r, H
    <3>2. H \o Append(r, m) = Append(H \o r, m)  BY SMTT(30), <1>1, <3>1, AppendConcat
    <3>3. QED  BY <3>2 DEF r
  <2>6. Line' = Append(Line, m)  BY <1>1, <2>3, <2>4, <2>5
  <2> HIDE DEF p1
  <2>7. /\ client' \in PushClient /\ client'.kind = client.kind /\ client'.queue = q
        /\ client'.parked = p1
    BY <1>1, <2>1, <2>2 DEF PushClient
  <2>8. Len(q) = Capacity  BY <1>1, <1>4
  <2>9. QED  BY <2>6, <2>7, <2>8
<1>5. QED  BY <1>3, <1>4

\* Yielding leaves the line as it is.
LEMMA PushYielded ==
    ASSUME PushTyped, P!Yield
    PROVE  /\ client' \in PushClient /\ client'.kind = client.kind
           /\ Len(client'.queue) <= Capacity
           /\ (client'.parked # <<>> => Len(client'.queue) = Capacity)
           /\ Line' = Line /\ held' \in Seq(PushCopy) /\ Len(held') <= MaxHeld
<1> DEFINE q == client.queue
           p == client.parked
           H == Handed
           h == Head(client.queue)
           F == P!FirstOf(p, 1)
           T == SubSeq(p, 2, Len(p))
<1>1. /\ q \in Seq(Msgs) /\ p \in Seq(Msgs) /\ H \in Seq(Msgs) /\ Len(H) = Len(held)
      /\ client = [kind |-> client.kind, queue |-> q, parked |-> p] /\ client.kind \in Kinds
      /\ Capacity \in Nat /\ Len(q) <= Capacity /\ (p # <<>> => Len(q) = Capacity)
      /\ Line = H \o (q \o p) /\ held \in Seq(PushCopy)
  BY PushTypes, LineProperties, SourcesAssumption DEF PushTyped, Line
<1>2. /\ q # <<>> /\ Len(held) < MaxHeld /\ held' = Append(held, [m |-> h])
      /\ client' = [kind |-> client.kind, queue |-> Tail(q) \o F, parked |-> T]
  BY <1>1 DEF P!Yield, P!Hand, P!Taken
<1>3. /\ h \in Msgs /\ Tail(q) \in Seq(Msgs) /\ Len(Tail(q)) = Len(q) - 1
  BY <1>1, <1>2, HeadTailProperties
<1>4. held' \in Seq(PushCopy) /\ Len(held') = Len(held) + 1
      /\ (\A i \in 1..Len(held) : held'[i] = held[i]) /\ held'[Len(held) + 1] = [m |-> h]
  <2>1. [m |-> h] \in PushCopy  BY <1>3 DEF PushCopy
  <2>2. QED  BY <1>1, <1>2, <2>1, AppendProperties
<1>5. H' = Append(H, h)
  <2>1. H' = [i \in 1..(Len(held) + 1) |-> IF i <= Len(held) THEN held[i].m ELSE h]
    BY SMTT(30), <1>1, <1>4 DEF Handed
  <2>2. H = [i \in 1..Len(held) |-> held[i].m] /\ Len(held) \in Nat  BY <1>1 DEF Handed
  <2>3. /\ H' \in Seq(Msgs) /\ Len(H') = Len(H) + 1
        /\ \A i \in 1..Len(H) : H'[i] = H[i]
        /\ H'[Len(H) + 1] = h
    <3>1. \A i \in 1..Len(held) : held[i].m \in Msgs  BY <1>1, PushTypes
    <3>2. H' \in [1..(Len(held) + 1) -> Msgs]  BY <1>3, <2>1, <3>1
    <3>3. QED  BY <1>1, <2>1, <2>2, <3>2
  <2>4. /\ Append(H, h) \in Seq(Msgs) /\ Len(Append(H, h)) = Len(H) + 1
        /\ \A i \in 1..Len(H) : Append(H, h)[i] = H[i]
        /\ Append(H, h)[Len(H) + 1] = h
    BY <1>1, <1>3, AppendProperties
  <2>5. \A x, y \in Seq(Msgs) : Len(x) = Len(y) /\ (\A i \in 1..Len(x) : x[i] = y[i]) => x = y
    BY SeqEqual
  <2>6. \A i \in 1..Len(H') : H'[i] = Append(H, h)[i]  BY <1>1, <2>2, <2>3, <2>4
  <2> HIDE DEF H, h
  <2>7. QED  BY <2>3, <2>4, <2>5, <2>6
<1>6. /\ F \in Seq(Msgs) /\ T \in Seq(Msgs) /\ F \o T = p
      /\ Len(F) = (IF p = <<>> THEN 0 ELSE 1) /\ (T # <<>> => p # <<>>)
  <2>1. CASE p = <<>>
    <3>1. F = <<>> /\ T = <<>>  BY <2>1 DEF P!FirstOf
    <3>2. <<>> \o p = p /\ Len(<<>>) = 0  BY <1>1, ConcatEmptySeq
    <3> HIDE DEF F, T, p
    <3>3. F \o T = p  BY <2>1, <3>1, <3>2
    <3>4. QED  BY <1>1, <2>1, <3>1, <3>2, <3>3
  <2>2. CASE p # <<>>
    <3>1. Len(p) \in Nat /\ Len(p) >= 1  BY <1>1, <2>2, EmptySeq
    <3>2. F = SubSeq(p, 1, 1)
      <4>1. (IF Len(p) < 1 THEN Len(p) ELSE 1) = 1  BY <3>1
      <4>2. QED  BY <4>1 DEF P!FirstOf
    <3>3. SubSeq(p, 1, 1) \o SubSeq(p, 2, Len(p)) = SubSeq(p, 1, Len(p))
      <4>1. \A n \in 1..Len(p) : SubSeq(p, 1, 1) \o SubSeq(p, 1 + 1, n) = SubSeq(p, 1, n)
        <5> HIDE DEF p
        <5>1. QED  BY <1>1, <3>1, ConcatAdjacentSubSeq
      <4>2. QED  BY <3>1, <4>1
    <3>4. SubSeq(p, 1, Len(p)) = p  BY <1>1, SubSeqFull
    <3>5. SubSeq(p, 1, 1) \in Seq(Msgs) /\ Len(SubSeq(p, 1, 1)) = 1 /\ T \in Seq(Msgs)
      BY <1>1, <3>1
    <3>6. QED  BY <2>2, <3>2, <3>3, <3>4, <3>5
  <2>3. QED  BY <2>1, <2>2
<1> HIDE DEF q, p, H, h, F, T
<1> DEFINE t == Tail(q)
<1>7. (t \o F) \o T = t \o p
  <2>1. \A x, y, z \in Seq(Msgs) : (x \o y) \o z = x \o (y \o z)  BY ConcatAssociative
  <2>2. QED  BY <1>3, <1>6, <2>1
<1>8. Append(H, h) \o (t \o p) = (Append(H, h) \o t) \o p
  <2>1. Append(H, h) \in Seq(Msgs)  BY <1>1, <1>3, AppendProperties
  <2>2. \A x, y, z \in Seq(Msgs) : (x \o y) \o z = x \o (y \o z)  BY ConcatAssociative
  <2>3. QED  BY <1>1, <1>3, <2>1, <2>2
<1>9. Append(H, h) \o t = H \o q
  <2>1. \A x, y \in Seq(Msgs) : y # <<>> => Append(x, Head(y)) \o Tail(y) = x \o y  BY MoveHead
  <2>2. h = Head(q)  BY DEF h, q
  <2>3. QED  BY <1>1, <1>2, <2>1, <2>2
<1>10. (H \o q) \o p = H \o (q \o p)
  <2>1. \A x, y, z \in Seq(Msgs) : (x \o y) \o z = x \o (y \o z)  BY ConcatAssociative
  <2>2. QED  BY <1>1, <2>1
<1>11. client'.queue = t \o F /\ client'.parked = T  BY <1>2
<1>12. Line' = Line
  <2>1. Line' = H' \o ((t \o F) \o T)  BY <1>11 DEF Line, H
  <2>2. QED  BY <1>1, <1>5, <1>7, <1>8, <1>9, <1>10, <2>1
<1>13. t \o F \in Seq(Msgs) /\ Len(t \o F) = Len(q) - 1 + Len(F)
  BY ZenonT(30), <1>3, <1>6, ConcatProperties
<1> HIDE DEF t
<1>14. client' \in PushClient /\ client'.kind = client.kind
  <2>1. client' = [kind |-> client.kind, queue |-> t \o F, parked |-> T]  BY <1>2 DEF t
  <2>2. QED  BY <1>1, <1>6, <1>13, <2>1 DEF PushClient
<1>15. Len(t \o F) <= Capacity /\ (T # <<>> => Len(t \o F) = Capacity)
  BY <1>1, <1>6, <1>13
<1>16. Len(held') <= MaxHeld  BY SMTT(30), <1>1, <1>2, <1>4, SourcesAssumption
<1>17. QED  BY <1>4, <1>11, <1>12, <1>14, <1>15, <1>16

\* What was answered stays answered, as outcomes only grow.
LEMMA PushAnswered ==
    ASSUME PushTyped, client'.kind = client.kind, \A m \in Msgs : outcome[m] \subseteq outcome'[m]
    PROVE  P!Answered \subseteq P!Answered'
BY DEF P!Answered, P!Kind

\* A step that delivers nothing settles what it settles for good, and keeps
\* the order if it takes from the line only what is answered, or its end when
\* the source stops.
LEMMA PushKeeps ==
    ASSUME PushInv, PushTyped', client'.kind = client.kind,
           \A m \in Msgs : outcome[m] \subseteq outcome'[m],
           broker'.ready = broker.ready, broker'.leased \subseteq broker.leased,
           broker.leased \subseteq broker'.leased \cup P!Answered',
           broker.gone \subseteq broker'.gone,
           broker'.gone \subseteq broker.gone \cup (P!Answered' \cap broker.leased),
           broker'.gone \cap broker'.leased = {},
           client.kind # "pubsub" => Increasing(Line'), ToSet(Line') \subseteq ToSet(Line),
           phase' = "run" \/ client.kind = "mqtt" => ToSet(Line) \subseteq ToSet(Line') \cup P!Answered',
           client.kind # "pubsub" => \A x \in ToSet(Line'), y \in ToSet(Line) :
                y < x => y \in ToSet(Line') \cup P!Answered',
           phase' = "run" => phase = "run"
    PROVE  PushInv' /\ P!Settled \subseteq P!Settled'
<1>0. PushTyped /\ PushPlaces /\ PushSound /\ PushOrdered  BY DEF PushInv
<1>1. P!Answered \subseteq P!Answered'  BY <1>0, PushAnswered
<1>2. PushPlaces'  BY <1>0 DEF PushPlaces
<1>3. PushSound'
  <2>1. CASE client.kind = "mqtt"  BY <1>0, <1>1, <2>1 DEF PushSound
  <2>2. CASE client.kind # "mqtt"  BY <1>0, <1>1, <2>2 DEF PushSound
  <2>3. QED  BY <2>1, <2>2
<1>4. PushOrdered'
  <2> SUFFICES ASSUME client.kind # "pubsub"
               PROVE  /\ Increasing(Line') /\ Increasing(broker'.ready)
                      /\ \A x \in ToSet(Line'), y \in ToSet(broker'.ready) : x < y
                      /\ phase' = "run" \/ client.kind # "amqp" =>
                            \A x \in ToSet(Line') : \A m \in 1..(x - 1) : m \in P!Answered' \cup ToSet(Line')
                      /\ phase' = "run" =>
                            Msgs \subseteq P!Answered' \cup ToSet(Line') \cup ToSet(broker'.ready)
                      /\ client.kind = "amqp" =>
                            Msgs \subseteq P!Answered' \cup broker'.leased \cup ToSet(broker'.ready)
    BY DEF PushOrdered
  <2>1. /\ Increasing(Line) /\ Increasing(broker.ready)
        /\ \A x \in ToSet(Line), y \in ToSet(broker.ready) : x < y
        /\ phase = "run" \/ client.kind # "amqp" =>
              \A x \in ToSet(Line) : \A m \in 1..(x - 1) : m \in P!Answered \cup ToSet(Line)
        /\ phase = "run" => Msgs \subseteq P!Answered \cup ToSet(Line) \cup ToSet(broker.ready)
        /\ client.kind = "amqp" => Msgs \subseteq P!Answered \cup broker.leased \cup ToSet(broker.ready)
    BY <1>0 DEF PushOrdered
  <2>2. ASSUME phase' = "run" \/ client.kind # "amqp", NEW x \in ToSet(Line'), NEW m \in 1..(x - 1)
        PROVE  m \in P!Answered' \cup ToSet(Line')
    <3>1. m \in P!Answered \cup ToSet(Line)  BY <2>1, <2>2
    <3>2. x \in Nat
      <4>1. ToSet(Line) \subseteq Msgs  BY <1>0, LineProperties
      <4>2. QED  BY <1>0, <4>1, PushTypes
    <3>3. m < x  BY <3>2
    <3>4. QED  BY <1>1, <3>1, <3>3
  <2>3. QED  BY <1>1, <2>1, <2>2
<1>5. P!Settled \subseteq P!Settled'
  <2>1. ToSet(Line) = P!InClient /\ ToSet(Line') = P!InClient'
    <3>1. ToSet(Line) = P!InClient  BY <1>0, LineProperties
    <3>2. (PushTyped => ToSet(Line) = P!InClient)'  BY LineProperties, PTL
    <3>3. QED  BY <3>1, <3>2
  <2>2. QED  BY <2>1 DEF P!Settled, P!Kind
<1>6. QED  BY <1>2, <1>3, <1>4, <1>5 DEF PushInv

\* The source yields the head of its queue.
LEMMA PushYieldInv == ASSUME PushInv, P!Yield PROVE PushInv' /\ P!Settled \subseteq P!Settled'
<1>0. PushTyped  BY DEF PushInv
<1>1. /\ client' \in PushClient /\ client'.kind = client.kind
      /\ Len(client'.queue) <= Capacity
      /\ (client'.parked # <<>> => Len(client'.queue) = Capacity)
      /\ Line' = Line /\ held' \in Seq(PushCopy) /\ Len(held') <= MaxHeld
  BY <1>0, PushYielded
<1>2. UNCHANGED <<broker, outcome, phase, faults>>  BY DEF P!Yield
<1>3. PushTyped'  BY <1>0, <1>1, <1>2 DEF PushTyped, SharedInv
<1>4. P!Answered' = P!Answered  BY <1>1, <1>2 DEF P!Answered, P!Kind
<1>5. broker.gone \cap broker.leased = {}  BY DEF PushInv, PushPlaces
<1>6. client.kind # "pubsub" => Increasing(Line')  BY <1>1 DEF PushInv, PushOrdered
<1>7. QED  BY <1>1, <1>2, <1>3, <1>4, <1>5, <1>6, PushKeeps

\* A release takes one copy out of the line, and it is answered unless it
\* failed with Pub/Sub.
LEMMA PushReleasedInv == ASSUME PushInv, P!Released PROVE PushInv' /\ P!Settled \subseteq P!Settled'
<1>0. PushTyped  BY DEF PushInv
<1>1. PICK i \in DOMAIN held, o \in {"ok", "err"} :
        /\ P!Release(i, o) /\ UNCHANGED <<client, phase>>
        /\ broker' = CASE P!Kind = "amqp" -> P!AmqpReleased(held[i].m, o = "err")
                       [] P!Kind = "pubsub" -> P!PubSubReleased(held[i].m, o = "err")
                       [] P!Kind = "mqtt" -> P!MqttReleased(held[i].m, o = "err")
  BY DEF P!Released
<1> DEFINE m == held[i].m
<1>2. /\ held' = RemoveAt(held, i) /\ held' \in Seq(PushCopy) /\ Len(held') <= MaxHeld
      /\ m \in Msgs
  BY <1>0, <1>1, HeldShrinks, InstanceOperators, PushTypes
     DEF PushTyped, SharedInv, P!Release
<1>3. /\ outcome' \in [Msgs -> SUBSET Outcomes]
      /\ \A n \in Msgs : outcome[n] \subseteq outcome'[n]
      /\ o \in outcome'[m]
  BY <1>0, <1>1, <1>2, PushTypes DEF P!Release, P!Became, Outcomes
<1>4. faults' \in 0..MaxFaults
  BY <1>0, <1>1, SourcesAssumption DEF PushTyped, SharedInv, P!Release, P!Fault
<1> HIDE DEF m
<1>5. client.kind # "pubsub" \/ o # "err" => m \in P!Answered'
  BY <1>1, <1>2, <1>3 DEF P!Answered, P!Kind
<1>6. \/ broker' = broker
      \/ (client.kind # "pubsub" \/ o # "err") /\ broker' = P!Ack(m)
  BY <1>0, <1>1, PushTypes
     DEF P!AmqpReleased, P!PubSubReleased, P!MqttReleased, P!Kind, m
<1>7. /\ broker' \in PushBroker /\ broker'.ready = broker.ready
      /\ broker'.leased \subseteq broker.leased
      /\ broker.leased \subseteq broker'.leased \cup P!Answered'
      /\ broker.gone \subseteq broker'.gone
      /\ broker'.gone \subseteq broker.gone \cup (P!Answered' \cap broker.leased)
      /\ broker'.gone \cap broker'.leased = {}
  <2>0. broker \in PushBroker /\ broker.gone \cap broker.leased = {}
    BY <1>0 DEF PushTyped, PushInv, PushPlaces
  <2>1. CASE broker' = broker  BY <2>0, <2>1
  <2>2. CASE broker' = P!Ack(m) /\ (client.kind # "pubsub" \/ o # "err")
    <3>1. m \in P!Answered'  BY <1>5, <2>2
    <3>2. broker' = [ready |-> broker.ready, leased |-> broker.leased \ {m},
                     gone |-> IF m \in broker.leased THEN broker.gone \cup {m} ELSE broker.gone]
      BY <2>0, <2>2 DEF P!Ack, PushBroker
    <3>3. QED  BY <1>2, <2>0, <3>1, <3>2 DEF PushBroker
  <2>3. QED  BY <1>6, <2>1, <2>2
<1>8. PushTyped'  BY <1>0, <1>1, <1>2, <1>3, <1>4, <1>7 DEF PushTyped, SharedInv
<1>9. Line' = RemoveAt(Line, i) /\ i \in 1..Len(Line) /\ Line[i] = m
  <2> DEFINE rest == client.queue \o client.parked
  <2>1. /\ Handed \in Seq(Msgs) /\ Len(Handed) = Len(held) /\ Len(held) \in Nat
        /\ rest \in Seq(Msgs) /\ i \in 1..Len(held)
    BY <1>0, LineProperties, PushTypes, ConcatProperties
  <2>2. Handed' = RemoveAt(Handed, i)
    <3>1. /\ Len(held') = Len(held) - 1 /\ held \in Seq(PushCopy)
          /\ \A j \in 1..(Len(held) - 1) : held'[j] = held[IF j < i THEN j ELSE j + 1]
      BY <1>0, <1>2, <2>1, PushTypes, RemoveAtProperties
    <3>2. /\ RemoveAt(Handed, i) \in Seq(Msgs) /\ Len(RemoveAt(Handed, i)) = Len(held) - 1
          /\ \A j \in 1..(Len(held) - 1) :
                RemoveAt(Handed, i)[j] = Handed[IF j < i THEN j ELSE j + 1]
      BY <2>1, RemoveAtProperties
    <3>3. Handed' = [j \in 1..(Len(held) - 1) |-> held'[j].m]  BY <3>1 DEF Handed
    <3>4. \A j \in 1..(Len(held) - 1) : held'[j].m = RemoveAt(Handed, i)[j]
      <4> SUFFICES ASSUME NEW j \in 1..(Len(held) - 1)
                   PROVE  held'[j].m = RemoveAt(Handed, i)[j]
        OBVIOUS
      <4> DEFINE h == IF j < i THEN j ELSE j + 1
      <4>1. h \in 1..Len(held)  BY <2>1
      <4>2. held'[j] = held[h] /\ RemoveAt(Handed, i)[j] = Handed[h]  BY <3>1, <3>2
      <4> HIDE DEF h
      <4>3. Handed[h] = held[h].m  BY <4>1 DEF Handed
      <4>4. QED  BY <4>2, <4>3
    <3>5. RemoveAt(Handed, i) = [j \in 1..(Len(held) - 1) |-> RemoveAt(Handed, i)[j]]
      BY <2>1, <3>2
    <3>6. QED  BY <3>3, <3>4, <3>5
  <2>3. Line = Handed \o rest /\ Line' = Handed' \o rest  BY <1>1 DEF Line
  <2> HIDE DEF rest
  <2>4. RemoveAt(Handed \o rest, i) = RemoveAt(Handed, i) \o rest
    <3>1. \A s, t \in Seq(Msgs) : \A j \in 1..Len(s) : RemoveAt(s \o t, j) = RemoveAt(s, j) \o t
      BY RemoveAtConcat
    <3>2. QED  BY <2>1, <3>1
  <2>5. i \in DOMAIN Line /\ Line[i] = m  BY <1>0, LineProperties DEF m
  <2>6. QED  BY <1>0, <2>2, <2>3, <2>4, <2>5, LineProperties
<1>10. /\ ToSet(Line') \subseteq ToSet(Line) /\ ToSet(Line) \subseteq ToSet(Line') \cup {m}
  BY <1>0, <1>9, ToSetRemoveAt, LineProperties
<1>11. client.kind # "pubsub" => Increasing(Line')
  BY <1>0, <1>9, IncreasingRemoveAt, LineProperties DEF PushInv, PushOrdered
<1>12. client.kind # "pubsub" => ToSet(Line) \subseteq ToSet(Line') \cup P!Answered'
  BY <1>5, <1>10
<1>13. QED
  <2>1. client'.kind = client.kind /\ phase' = phase  BY <1>1
  <2>2. CASE client.kind # "pubsub"
    BY <1>0, <1>3, <1>7, <1>8, <1>10, <1>11, <1>12, <2>1, <2>2, PushKeeps
  <2>3. CASE client.kind = "pubsub"
    <3>1. PushOrdered'  BY <2>1, <2>3 DEF PushOrdered
    <3>2. PushPlaces' /\ PushSound'
      BY <1>0, <1>3, <1>7, <2>1, <2>3, PushAnswered DEF PushInv, PushPlaces, PushSound
    <3>3. P!Settled \subseteq P!Settled'  BY <1>7, <2>1, <2>3 DEF P!Settled, P!Kind
    <3>4. QED  BY <1>8, <3>1, <3>2, <3>3 DEF PushInv
  <2>4. QED  BY <2>2, <2>3

\* A delivery takes one message out of what is ready.
LEMMA PushDelivered ==
    ASSUME PushTyped, PushPlaces, NEW i \in DOMAIN broker.ready,
           NEW leased \in SUBSET Msgs, NEW gone \in SUBSET Msgs,
           leased \cup gone = broker.leased \cup broker.gone \cup {broker.ready[i]},
           leased \cap gone = {},
           broker' = [ready |-> RemoveAt(broker.ready, i), leased |-> leased, gone |-> gone]
    PROVE  /\ broker' \in PushBroker /\ PushPlaces' /\ broker.ready[i] \in Msgs
           /\ broker.ready[i] \notin broker.leased \cup broker.gone
           /\ ToSet(broker'.ready) \subseteq ToSet(broker.ready)
           /\ ToSet(broker.ready) \subseteq ToSet(broker'.ready) \cup {broker.ready[i]}
           /\ broker.ready[i] \in ToSet(broker.ready)
<1> DEFINE ready == broker.ready
           r == RemoveAt(broker.ready, i)
<1>1. ready \in Seq(Msgs) /\ i \in 1..Len(ready)  BY PushTypes
<1>2. /\ r \in Seq(Msgs) /\ Len(r) = Len(ready) - 1
      /\ \A j \in 1..(Len(ready) - 1) : r[j] = ready[IF j < i THEN j ELSE j + 1]
      /\ ToSet(r) \subseteq ToSet(ready) /\ ToSet(ready) \subseteq ToSet(r) \cup {ready[i]}
  BY ZenonT(30), <1>1, RemoveAtProperties, ToSetRemoveAt
<1>3. broker'.ready = r /\ broker'.leased = leased /\ broker'.gone = gone  OBVIOUS
<1>4. broker' \in PushBroker  BY <1>2 DEF PushBroker
<1>5. ready[i] \in Msgs /\ ready[i] \in ToSet(ready)  BY <1>1 DEF ToSet
<1>6. /\ \A a, b \in DOMAIN ready : a # b => ready[a] # ready[b]
      /\ \A a \in DOMAIN ready : ready[a] \notin broker.leased \cup broker.gone
  BY DEF PushPlaces
<1> HIDE DEF r, ready
<1>7. ASSUME NEW a \in DOMAIN r
      PROVE  /\ r[a] \notin leased \cup gone
             /\ \A b \in DOMAIN r : a # b => r[a] # r[b]
  <2> DEFINE up(j) == IF j < i THEN j ELSE j + 1
  <2>1. \A j \in DOMAIN r : up(j) \in DOMAIN ready /\ r[j] = ready[up(j)] /\ up(j) # i
    BY <1>1, <1>2
  <2>2. \A b \in DOMAIN r : a # b => up(a) # up(b)  BY <1>1, <1>2
  <2> HIDE DEF up
  <2>3. ready[up(a)] # ready[i]  BY <1>1, <1>6, <2>1
  <2>4. r[a] \notin leased \cup gone
    <3>1. r[a] \notin broker.leased \cup broker.gone  BY <1>6, <2>1
    <3>2. r[a] # ready[i]  BY <2>1, <2>3
    <3>3. QED  BY <3>1, <3>2 DEF ready
  <2>5. \A b \in DOMAIN r : a # b => r[a] # r[b]
    <3> SUFFICES ASSUME NEW b \in DOMAIN r, a # b PROVE r[a] # r[b]  OBVIOUS
    <3>1. up(a) \in DOMAIN ready /\ up(b) \in DOMAIN ready /\ up(a) # up(b)  BY <2>1, <2>2
    <3>2. ready[up(a)] # ready[up(b)]  BY <1>6, <3>1
    <3>3. QED  BY <2>1, <3>2
  <2>6. QED  BY <2>4, <2>5
<1>8. PushPlaces'  BY <1>3, <1>7 DEF PushPlaces
<1>9. ready[i] \notin broker.leased \cup broker.gone  BY <1>1, <1>6
<1>10. QED  BY <1>2, <1>3, <1>4, <1>5, <1>8, <1>9 DEF ready

\* The first message that is ready joins the line (after stop(): of AmqpSource),
\* or is refused by a source that stops: what is ready or in the line stays in
\* order.
LEMMA PushOrderedDelivery ==
    ASSUME PushTyped, PushTyped', PushOrdered, client.kind # "pubsub", broker.ready # <<>>,
           client'.kind = client.kind, phase' = phase,
           \A m \in Msgs : outcome[m] \subseteq outcome'[m],
           broker'.ready = RemoveAt(broker.ready, 1),
           client.kind = "amqp" => broker'.leased = broker.leased \cup {broker.ready[1]},
           \/ Line' = Append(Line, broker.ready[1]) /\ (phase = "run" \/ client.kind = "amqp")
           \/ Line' = Line /\ phase # "run"
    PROVE  PushOrdered'
<1> DEFINE ready == broker.ready
           y == broker.ready[1]
<1>0. /\ Increasing(Line) /\ Increasing(ready)
      /\ \A a \in ToSet(Line), b \in ToSet(ready) : a < b
      /\ phase = "run" \/ client.kind # "amqp" =>
            \A x \in ToSet(Line) : \A m \in 1..(x - 1) : m \in P!Answered \cup ToSet(Line)
      /\ phase = "run" => Msgs \subseteq P!Answered \cup ToSet(Line) \cup ToSet(ready)
      /\ client.kind = "amqp" => Msgs \subseteq P!Answered \cup broker.leased \cup ToSet(ready)
  BY DEF PushOrdered
<1>1. /\ ready \in Seq(Msgs) /\ ready \in Seq(Nat) /\ 1 \in 1..Len(ready) /\ y \in Msgs
      /\ Msgs \in SUBSET Nat /\ y \in ToSet(ready)
  <2>1. ready \in Seq(Msgs) /\ Msgs \in SUBSET Nat  BY PushTypes
  <2>2. ready \in Seq(Nat)  BY <2>1, SeqMonotonic
  <2>3. Len(ready) \in Nat \ {0}  BY <2>1, EmptySeq
  <2>4. QED  BY <2>1, <2>2, <2>3 DEF ToSet
<1>2. /\ Line \in Seq(Msgs) /\ Line \in Seq(Nat)
  BY LineProperties
<1>3. P!Answered \subseteq P!Answered'  BY PushAnswered
<1> HIDE DEF ready, y
<1>4. /\ Increasing(broker'.ready)
      /\ ToSet(broker'.ready) \subseteq ToSet(ready)
      /\ ToSet(ready) \subseteq ToSet(broker'.ready) \cup {y}
      /\ \A b \in ToSet(broker'.ready) : y < b
  <2>1. broker'.ready = RemoveAt(ready, 1)  BY DEF ready
  <2>2. Increasing(broker'.ready)  BY <1>0, <1>1, <2>1, IncreasingRemoveAt
  <2>3. /\ ToSet(broker'.ready) \subseteq ToSet(ready)
        /\ ToSet(ready) \subseteq ToSet(broker'.ready) \cup {ready[1]}
    BY <1>1, <2>1, ToSetRemoveAt
  <2> DEFINE r == RemoveAt(ready, 1)
  <2>4. ASSUME NEW j \in DOMAIN r PROVE y < r[j]
    <3>1. /\ r \in Seq(Nat) /\ Len(r) = Len(ready) - 1
          /\ \A h \in 1..(Len(ready) - 1) : r[h] = ready[IF h < 1 THEN h ELSE h + 1]
      BY <1>1, RemoveAtProperties
    <3> HIDE DEF r
    <3>2. j \in 1..(Len(ready) - 1)  BY SMTT(30), <1>1, <3>1
    <3>3. r[j] = ready[j + 1] /\ j + 1 \in DOMAIN ready
      <4>1. r[j] = ready[IF j < 1 THEN j ELSE j + 1]  BY <3>1, <3>2
      <4>2. ~(j < 1)  BY <3>2
      <4>3. j + 1 \in 1..Len(ready)  BY <1>1, <3>2
      <4>4. QED  BY <1>1, <4>1, <4>2, <4>3
    <3>4. ready[1] < ready[j + 1]  BY <1>0, <1>1, <3>2, <3>3 DEF Increasing
    <3>5. QED  BY <3>3, <3>4 DEF y, ready
  <2>5. \A b \in ToSet(broker'.ready) : y < b  BY <2>1, <2>4 DEF ToSet
  <2>6. QED  BY <2>2, <2>3, <2>5 DEF y, ready
<1>5. CASE Line' = Append(Line, broker.ready[1]) /\ (phase = "run" \/ client.kind = "amqp")
  <2>1. Line' = Append(Line, y)  BY <1>5 DEF y
  <2>2. ToSet(Line') = ToSet(Line) \cup {y}  BY <1>1, <1>2, <2>1, ToSetAppend
  <2>3. Increasing(Line')
    <3>1. \A n \in ToSet(Line) : n < y  BY <1>0, <1>1
    <3>2. y \in Nat  BY <1>1
    <3>3. QED  BY <1>0, <1>2, <2>1, <3>1, <3>2, IncreasingAppend
  <2>4. \A a \in ToSet(Line'), b \in ToSet(broker'.ready) : a < b
    BY <1>0, <1>4, <2>2
  <2>5. phase = "run" \/ client.kind # "amqp" =>
          \A x \in ToSet(Line') : \A m \in 1..(x - 1) : m \in P!Answered' \cup ToSet(Line')
    <3> SUFFICES ASSUME phase = "run", NEW x \in ToSet(Line'), NEW m \in 1..(x - 1)
                 PROVE  m \in P!Answered' \cup ToSet(Line')
      BY <1>5
    <3>1. CASE x \in ToSet(Line)  BY <1>0, <1>3, <2>2, <3>1
    <3>2. CASE x = y
      <4>1. m \in Msgs /\ m < y  BY SMTT(30), <1>1, <3>2, SourcesAssumption DEF Msgs
      <4>2. m \in P!Answered \cup ToSet(Line) \cup ToSet(ready)  BY <1>0, <1>5, <4>1
      <4>3. m \notin ToSet(broker'.ready)
        <5>1. m \in Nat /\ y \in Nat  BY <1>1, <4>1
        <5>2. QED  BY <1>4, <4>1, <5>1
      <4>4. m # y  BY <1>1, <4>1
      <4>5. QED  BY <1>3, <1>4, <2>2, <4>2, <4>3, <4>4
    <3>3. QED  BY <2>2, <3>1, <3>2
  <2>6. phase = "run" => Msgs \subseteq P!Answered' \cup ToSet(Line') \cup ToSet(broker'.ready)
    BY <1>0, <1>3, <1>4, <2>2
  <2>7. client.kind = "amqp" => Msgs \subseteq P!Answered' \cup broker'.leased \cup ToSet(broker'.ready)
    BY <1>0, <1>3, <1>4 DEF y
  <2>8. QED  BY <1>4, <2>3, <2>4, <2>5, <2>6, <2>7 DEF PushOrdered
<1>6. CASE Line' = Line /\ phase # "run"
  <2>1. Line' = Line  BY <1>6
  <2>2. client.kind # "amqp" =>
          \A x \in ToSet(Line') : \A m \in 1..(x - 1) : m \in P!Answered' \cup ToSet(Line')
    BY <1>0, <1>3, <2>1
  <2>3. client.kind = "amqp" => Msgs \subseteq P!Answered' \cup broker'.leased \cup ToSet(broker'.ready)
    BY <1>0, <1>3, <1>4 DEF y
  <2>4. \A a \in ToSet(Line'), b \in ToSet(broker'.ready) : a < b  BY <1>0, <1>4, <2>1
  <2>5. QED  BY <1>0, <1>4, <1>6, <2>1, <2>2, <2>3, <2>4 DEF PushOrdered
<1>7. QED  BY <1>5, <1>6

\* A message is delivered: what the source has becomes longer by it, unless it
\* stops and (AmqpSource) its queue is full.
LEMMA PushAmqpInv ==
    ASSUME PushInv, P!AmqpOnMessage \/ P!PubSubOnMessage
    PROVE  PushInv' /\ P!Settled \subseteq P!Settled'
<1>0. PushTyped /\ PushPlaces /\ PushSound /\ PushOrdered  BY DEF PushInv
<1>1. PICK i \in DOMAIN broker.ready :
        /\ client.kind \in {"amqp", "pubsub"} /\ (client.kind = "amqp" => i = 1)
        /\ broker' = P!Lease(i)
        /\ \/ client' = P!Enqueued(broker.ready[i]) /\ (phase = "run" \/ client.kind = "amqp")
           \/ client' = client /\ phase # "run"
        /\ UNCHANGED <<held, outcome, phase, faults>>
  <2>1. CASE P!AmqpOnMessage
    <3>1. broker.ready # <<>> /\ broker.ready \in Seq(Msgs)
      BY <1>0, <2>1, PushTypes DEF P!AmqpOnMessage
    <3>2. 1 \in DOMAIN broker.ready /\ Head(broker.ready) = broker.ready[1]
      BY <3>1, EmptySeq
    <3>3. QED  BY <2>1, <3>2 DEF P!AmqpOnMessage, P!Kind
  <2>2. CASE P!PubSubOnMessage  BY <2>2 DEF P!PubSubOnMessage, P!Kind
  <2>3. QED  BY <2>1, <2>2
<1> DEFINE y == broker.ready[i]
<1>2. broker' = [ready |-> RemoveAt(broker.ready, i), leased |-> broker.leased \cup {y},
                 gone |-> broker.gone]
  BY <1>0, <1>1, PushTypes, InstanceOperators DEF P!Lease
<1>3. y \in Msgs /\ y \notin broker.leased \cup broker.gone
  BY <1>0, <1>1, PushTypes DEF PushPlaces
<1>4. /\ broker' \in PushBroker /\ PushPlaces'
      /\ ToSet(broker'.ready) \subseteq ToSet(broker.ready)
      /\ ToSet(broker.ready) \subseteq ToSet(broker'.ready) \cup {y}
  <2> DEFINE leased == broker.leased \cup {y}
             gone == broker.gone
  <2>1. /\ leased \in SUBSET Msgs /\ gone \in SUBSET Msgs /\ leased \cap gone = {}
        /\ leased \cup gone = broker.leased \cup broker.gone \cup {broker.ready[i]}
    BY <1>0, <1>3, PushTypes DEF PushPlaces
  <2>2. broker' = [ready |-> RemoveAt(broker.ready, i), leased |-> leased, gone |-> gone]
    BY <1>2
  <2> HIDE DEF leased, gone
  <2>3. QED  BY <1>0, <2>1, <2>2, PushDelivered
<1>5. /\ client' \in PushClient /\ client'.kind = client.kind
      /\ Len(client'.queue) <= Capacity
      /\ (client'.parked # <<>> => Len(client'.queue) = Capacity)
      /\ \/ Line' = Append(Line, y) /\ (phase = "run" \/ client.kind = "amqp")
         \/ Line' = Line /\ phase # "run"
  <2>1. CASE client' = P!Enqueued(y) /\ (phase = "run" \/ client.kind = "amqp")
    <3> HIDE DEF y
    <3>1. client' = P!Enqueued(y) /\ held' = held  BY <1>1, <2>1 DEF y
    <3>2. QED  BY <1>0, <1>3, <2>1, <3>1, PushEnqueued
  <2>2. CASE client' = client /\ phase # "run"
    <3>1. client' = client /\ held' = held  BY <1>1, <2>2
    <3>2. Line' = Line  BY <3>1 DEF Line, Handed
    <3>3. QED  BY <1>0, <2>2, <3>1, <3>2 DEF PushTyped
  <2>3. QED  BY <1>1, <2>1, <2>2
<1>6. PushTyped'  BY <1>0, <1>1, <1>4, <1>5 DEF PushTyped, SharedInv
<1>7. P!Answered' = P!Answered  BY <1>1, <1>5 DEF P!Answered, P!Kind
<1>8. PushSound'  BY <1>0, <1>1, <1>2, <1>5, <1>7 DEF PushSound
<1>9. PushOrdered'
  <2>1. CASE client.kind = "pubsub"  BY <1>5, <2>1 DEF PushOrdered
  <2>2. CASE client.kind = "amqp"
    <3>1. i = 1 /\ broker.ready # <<>>
      <4>1. i = 1  BY <1>1, <2>2
      <4>2. broker.ready # <<>>
        <5>1. i \in 1..Len(broker.ready)  BY <1>0, PushTypes
        <5>2. QED  BY <5>1
      <4>3. QED  BY <4>1, <4>2
    <3>2. /\ broker'.ready = RemoveAt(broker.ready, 1)
          /\ broker'.leased = broker.leased \cup {broker.ready[1]}
      BY <1>2, <3>1
    <3>3. \/ Line' = Append(Line, broker.ready[1]) /\ (phase = "run" \/ client.kind = "amqp")
          \/ Line' = Line /\ phase # "run"
      BY <1>5, <3>1
    <3>4. client.kind # "pubsub" /\ phase' = phase /\ \A m \in Msgs : outcome[m] \subseteq outcome'[m]
      BY <1>1, <2>2
    <3>5. QED  BY <1>0, <1>5, <1>6, <3>1, <3>2, <3>3, <3>4, PushOrderedDelivery
  <2>3. QED  BY <1>1, <2>1, <2>2
<1>10. P!Settled \subseteq P!Settled'  BY <1>1, <1>2, <1>5 DEF P!Settled, P!Kind
<1>11. QED  BY <1>4, <1>6, <1>8, <1>9, <1>10 DEF PushInv

\* The deliveries and acknowledgements of an MQTT broker.
LEMMA PushMqttInv ==
    ASSUME PushInv, P!MqttOnMessage
    PROVE  PushInv' /\ P!Settled \subseteq P!Settled'
<1>0. PushTyped /\ PushPlaces /\ PushSound /\ PushOrdered  BY DEF PushInv
<1> DEFINE y == broker.ready[1]
<1>1. /\ client.kind = "mqtt" /\ broker.ready # <<>> /\ y = Head(broker.ready)
      /\ broker.ready \in Seq(Msgs) /\ 1 \in DOMAIN broker.ready
      /\ broker' = [broker EXCEPT !.ready = Tail(@), !.gone = @ \cup {y}]
      /\ UNCHANGED <<held, phase, faults>>
  <2>1. broker.ready # <<>> /\ broker.ready \in Seq(Msgs)
    BY <1>0, PushTypes DEF P!MqttOnMessage
  <2>2. 1 \in DOMAIN broker.ready /\ Head(broker.ready) = y
    BY <2>1, EmptySeq
  <2>3. QED  BY <2>1, <2>2 DEF P!MqttOnMessage, P!Kind
<1>2. \/ phase = "run" /\ client' = P!Enqueued(y) /\ UNCHANGED outcome
      \/ phase # "run" /\ outcome' = P!Became("rejected", {y}) /\ UNCHANGED client
  BY <1>1 DEF P!MqttOnMessage
<1>3. broker' = [ready |-> RemoveAt(broker.ready, 1), leased |-> broker.leased,
                 gone |-> broker.gone \cup {y}]
  <2>1. RemoveAt(broker.ready, 1) = Tail(broker.ready)  BY <1>1, RemoveAtHead
  <2>2. QED  BY <1>0, <1>1, <2>1, PushTypes
<1>4. y \in Msgs /\ y \notin broker.leased \cup broker.gone
  BY <1>0, <1>1, PushTypes DEF PushPlaces
<1>5. /\ broker' \in PushBroker /\ PushPlaces'
  <2> DEFINE leased == broker.leased
             gone == broker.gone \cup {y}
  <2>1. /\ leased \in SUBSET Msgs /\ gone \in SUBSET Msgs /\ leased \cap gone = {}
        /\ leased \cup gone = broker.leased \cup broker.gone \cup {broker.ready[1]}
    BY <1>0, <1>4, PushTypes DEF PushPlaces
  <2>2. broker' = [ready |-> RemoveAt(broker.ready, 1), leased |-> leased, gone |-> gone]
    BY <1>3
  <2> HIDE DEF leased, gone
  <2>3. QED  BY <1>0, <1>1, <2>1, <2>2, PushDelivered
<1> HIDE DEF y
<1>6. /\ client' \in PushClient /\ client'.kind = client.kind
      /\ Len(client'.queue) <= Capacity
      /\ (client'.parked # <<>> => Len(client'.queue) = Capacity)
      /\ IF phase = "run" THEN Line' = Append(Line, y) ELSE Line' = Line
      /\ outcome' \in [Msgs -> SUBSET Outcomes]
      /\ \A m \in Msgs : outcome[m] \subseteq outcome'[m]
      /\ phase # "run" => "rejected" \in outcome'[y]
  <2>1. CASE phase = "run"
    <3>1. client' = P!Enqueued(y) /\ held' = held /\ outcome' = outcome  BY <1>1, <1>2, <2>1
    <3>2. outcome \in [Msgs -> SUBSET Outcomes]  BY <1>0, PushTypes
    <3>3. QED  BY <1>0, <1>4, <2>1, <3>1, <3>2, PushEnqueued
  <2>2. CASE phase # "run"
    <3>1. client' = client /\ held' = held  BY <1>1, <1>2, <2>2
    <3>2. Line' = Line  BY <3>1 DEF Line, Handed
    <3>3. /\ outcome' \in [Msgs -> SUBSET Outcomes]
          /\ \A m \in Msgs : outcome[m] \subseteq outcome'[m]
          /\ "rejected" \in outcome'[y]
      BY <1>0, <1>2, <1>4, <2>2, PushTypes DEF P!Became, Outcomes
    <3>4. QED  BY <1>0, <2>2, <3>1, <3>2, <3>3 DEF PushTyped
  <2>3. QED  BY <2>1, <2>2
<1>7. PushTyped'  BY <1>0, <1>1, <1>5, <1>6 DEF PushTyped, SharedInv
<1>8. P!Answered \subseteq P!Answered' /\ (phase # "run" => y \in P!Answered')
  BY <1>0, <1>1, <1>4, <1>6, PushAnswered DEF P!Answered, P!Kind
<1>9. ToSet(Line') = ToSet(Line) \cup (IF phase = "run" THEN {y} ELSE {})
  <2>1. Line \in Seq(Msgs)  BY <1>0, LineProperties
  <2>2. ToSet(Append(Line, y)) = ToSet(Line) \cup {y}  BY <1>4, <2>1, ToSetAppend
  <2>3. QED  BY <1>6, <2>2
<1>10. PushSound'  BY <1>0, <1>1, <1>3, <1>6, <1>8, <1>9 DEF PushSound
<1>11. PushOrdered'
  <2>1. broker'.ready = RemoveAt(broker.ready, 1)  BY <1>3
  <2>2. client.kind # "pubsub" /\ client.kind # "amqp" /\ phase' = phase  BY <1>1
  <2>3. \/ Line' = Append(Line, broker.ready[1]) /\ phase = "run"
        \/ Line' = Line /\ phase # "run"
    BY <1>6 DEF y
  <2>4. QED  BY <1>0, <1>1, <1>6, <1>7, <2>1, <2>2, <2>3, PushOrderedDelivery
<1>12. P!Settled \subseteq P!Settled'
  <2>1. ToSet(Line) = P!InClient  BY <1>0, LineProperties
  <2>2. ToSet(Line') = P!InClient'
    <3>1. (PushTyped => ToSet(Line) = P!InClient)'  BY LineProperties, PTL
    <3>2. QED  BY <1>7, <3>1
  <2>3. QED  BY <1>1, <1>3, <1>4, <1>6, <1>9, <2>1, <2>2 DEF P!Settled, P!Kind
<1>13. QED  BY <1>5, <1>7, <1>10, <1>11, <1>12 DEF PushInv

\* The end of a lease, and a crash, put messages back.
LEMMA PushLeaseEndsInv ==
    ASSUME PushInv, P!LeaseEnds
    PROVE  PushInv' /\ P!Settled \subseteq P!Settled'
<1>0. PushTyped /\ PushPlaces /\ PushSound /\ PushOrdered  BY DEF PushInv
<1>1. PICK m \in broker.leased :
        /\ client.kind = "pubsub"
        /\ broker' = [broker EXCEPT !.ready = Append(@, m), !.leased = @ \ {m}]
        /\ UNCHANGED <<client, held, outcome, phase>>
  BY Zenon DEF P!LeaseEnds, P!Kind
<1>2. faults' \in 0..MaxFaults
  BY <1>0, SourcesAssumption DEF P!LeaseEnds, P!Fault, PushTyped, SharedInv
<1> DEFINE ready == broker.ready
           r == Append(ready, m)
<1>3. /\ ready \in Seq(Msgs) /\ m \in Msgs
      /\ broker' = [ready |-> r, leased |-> broker.leased \ {m}, gone |-> broker.gone]
  BY <1>0, <1>1, PushTypes
<1>4. /\ r \in Seq(Msgs) /\ Len(r) = Len(ready) + 1
      /\ (\A i \in 1..Len(ready) : r[i] = ready[i]) /\ r[Len(ready) + 1] = m
  BY <1>3, AppendProperties
<1>5. /\ \A i, j \in DOMAIN ready : i # j => ready[i] # ready[j]
      /\ \A i \in DOMAIN ready : ready[i] \notin broker.leased \cup broker.gone
      /\ broker.leased \cap broker.gone = {}
  BY <1>0 DEF PushPlaces
<1> HIDE DEF r, ready
<1>6. DOMAIN r = 1..(Len(ready) + 1) /\ DOMAIN ready = 1..Len(ready) /\ Len(ready) \in Nat
  BY <1>3, <1>4
<1>7. \A i \in DOMAIN r : r[i] \notin (broker.leased \ {m}) \cup broker.gone
  BY <1>1, <1>4, <1>5, <1>6
<1>8. ASSUME NEW i \in DOMAIN r, NEW j \in DOMAIN r, i # j PROVE r[i] # r[j]
  <2>1. \A h \in DOMAIN ready : ready[h] # m  BY <1>1, <1>5
  <2>2. CASE i \in DOMAIN ready /\ j \in DOMAIN ready
    BY <1>4, <1>5, <1>6, <1>8, <2>2
  <2>3. CASE i = Len(ready) + 1  BY <1>4, <1>6, <1>8, <2>1, <2>3
  <2>4. CASE j = Len(ready) + 1  BY <1>4, <1>6, <1>8, <2>1, <2>4
  <2>5. QED  BY <1>6, <2>2, <2>3, <2>4
<1>9. PushPlaces'  BY <1>3, <1>5, <1>7, <1>8 DEF PushPlaces
<1>10. broker' \in PushBroker  BY <1>0, <1>3, <1>4, PushTypes DEF PushBroker
<1>11. PushTyped'  BY <1>0, <1>1, <1>2, <1>10 DEF PushTyped, SharedInv
<1>12. PushSound' /\ PushOrdered'
  BY <1>0, <1>1, <1>3 DEF PushSound, PushOrdered, P!Answered, P!Kind
<1>13. P!Settled \subseteq P!Settled'  BY <1>1, <1>3 DEF P!Settled, P!Kind
<1>14. QED  BY <1>9, <1>11, <1>12, <1>13 DEF PushInv

\* The process ends: what was leased is delivered again.
LEMMA PushCrashInv ==
    ASSUME PushInv, P!Crash
    PROVE  PushInv' /\ P!Settled \subseteq P!Settled'
<1>0. PushTyped /\ PushPlaces /\ PushSound /\ PushOrdered  BY DEF PushInv
<1> DEFINE S == broker.leased \cup ToSet(broker.ready)
           r == A!InOrder(S)
<1>1. S \in SUBSET Msgs
  <2>1. broker.ready \in Seq(Msgs)  BY <1>0, PushTypes
  <2>2. ToSet(broker.ready) \subseteq Msgs  BY <2>1 DEF ToSet
  <2>3. QED  BY <1>0, <2>2, PushTypes
<1>2. /\ client.kind # "mqtt" /\ held' = <<>> /\ phase = "run"
      /\ client' = [kind |-> client.kind, queue |-> <<>>, parked |-> <<>>]
      /\ broker' = [ready |-> r, leased |-> {}, gone |-> broker.gone]
      /\ UNCHANGED <<outcome, phase>>
  <2>1. P!InOrder(S) = r  BY <1>1, InOrderProperties
  <2>2. broker' = [broker EXCEPT !.ready = P!InOrder(S), !.leased = {}]
    BY Zenon, InstanceOperators DEF P!Crash
  <2>3. broker' = [ready |-> r, leased |-> {}, gone |-> broker.gone]
    BY <1>0, <2>1, <2>2, PushTypes
  <2>4. client' = [kind |-> client.kind, queue |-> <<>>, parked |-> <<>>]
    BY <1>0, PushTypes DEF P!Crash
  <2>5. client.kind # "mqtt" /\ held' = <<>> /\ phase = "run" /\ UNCHANGED <<outcome, phase>>
    BY DEF P!Crash, P!Die, P!Kind
  <2>6. QED  BY <2>3, <2>4, <2>5
<1>3. faults' \in 0..MaxFaults
  BY <1>0, SourcesAssumption DEF P!Crash, P!Die, P!Fault, PushTyped, SharedInv
<1>4. r \in Seq(Msgs) /\ ToSet(r) = S /\ IsAscending(r, S) /\ r \in Seq(Nat)
  <2>1. r \in Seq(S) /\ ToSet(r) = S /\ IsAscending(r, S)  BY <1>1, InOrderProperties
  <2> HIDE DEF S, r
  <2>2. r \in Seq(Msgs)  BY <1>1, <2>1, SeqMonotonic
  <2>3. QED  BY <1>0, <2>1, <2>2, PushTypes, SeqMonotonic
<1>5. Increasing(r)  BY <1>4 DEF IsAscending, Increasing
<1>6. S \cap broker.gone = {}
  BY <1>0 DEF PushPlaces, ToSet
<1> HIDE DEF r
<1>7. PushPlaces'
  <2>1. ASSUME NEW i \in DOMAIN r, NEW j \in DOMAIN r, i # j PROVE r[i] # r[j]
    <3>1. i \in Nat /\ j \in Nat /\ r[i] \in Nat /\ r[j] \in Nat  BY <1>4
    <3>2. r[i] < r[j] \/ r[j] < r[i]  BY <1>5, <2>1, <3>1 DEF Increasing
    <3>3. QED  BY <3>1, <3>2
  <2>2. \A i \in DOMAIN r : r[i] \in S  BY <1>4 DEF ToSet
  <2>3. QED  BY <1>2, <1>6, <2>1, <2>2 DEF PushPlaces
<1>8. PushTyped'
  <2>1. client' \in PushClient /\ broker' \in PushBroker
    BY <1>0, <1>2, <1>4, PushTypes DEF PushClient, PushBroker
  <2>2. held' \in Seq(PushCopy) /\ Len(held') <= MaxHeld  BY <1>2, SourcesAssumption
  <2>3. Len(client'.queue) <= Capacity /\ client'.parked = <<>>  BY <1>2, SourcesAssumption
  <2>4. QED  BY <1>0, <1>2, <1>3, <2>1, <2>2, <2>3 DEF PushTyped, SharedInv
<1>9. P!Answered' = P!Answered  BY <1>2 DEF P!Answered, P!Kind
<1>10. PushSound'  BY <1>0, <1>2, <1>9 DEF PushSound
<1>11. PushOrdered'
  <2>1. Line' = <<>>
    <3>1. Handed' = <<>>
      <4>1. Len(held') = 0  BY <1>2
      <4>2. Handed' = [i \in 1..0 |-> held'[i].m]  BY <4>1 DEF Handed
      <4>3. QED  BY <4>2
    <3>2. QED  BY <1>2, <3>1 DEF Line
  <2>2. ToSet(Line') = {} /\ Increasing(Line')  BY <2>1 DEF ToSet, Increasing
  <2>3. client.kind = "amqp" => Msgs \subseteq P!Answered \cup S  BY <1>0 DEF PushOrdered
  <2>4. client.kind # "pubsub" => client.kind = "amqp"  BY <1>0, <1>2, PushTypes
  <2>5. client'.kind = client.kind /\ broker'.ready = r /\ broker'.leased = {}  BY <1>2
  <2>6. ToSet(broker'.ready) = S  BY <1>4, <2>5
  <2>7. QED  BY <1>5, <1>9, <2>2, <2>3, <2>4, <2>5, <2>6 DEF PushOrdered
<1>12. P!Settled \subseteq P!Settled'  BY <1>2 DEF P!Settled, P!Kind
<1>13. QED  BY <1>7, <1>8, <1>10, <1>11, <1>12 DEF PushInv

\* The queue is closed: those that wait to enqueue are refused.
LEMMA PushStopInv ==
    ASSUME PushInv, P!Stop \/ P!End
    PROVE  PushInv' /\ P!Settled \subseteq P!Settled'
<1>0. PushTyped /\ PushPlaces /\ PushSound /\ PushOrdered  BY DEF PushInv
<1>1. UNCHANGED <<broker, held, faults>>  BY DEF P!Stop, P!End
<1>2. broker.gone \cap broker.leased = {}  BY <1>0 DEF PushPlaces
<1>3. CASE P!Stop
  <2>1. /\ phase = "run" /\ phase' = "stop"
        /\ client' = [kind |-> client.kind, queue |-> client.queue, parked |-> <<>>]
        /\ \/ client.kind # "mqtt" /\ UNCHANGED outcome
           \/ client.kind = "mqtt" /\ outcome' = P!Became("rejected", ToSet(client.parked))
    BY <1>0, <1>3, PushTypes, InstanceOperators
       DEF P!Stop, P!AmqpStop, P!PubSubStop, P!MqttStop, P!AskToStop, P!Kind
  <2>2. /\ outcome' \in [Msgs -> SUBSET Outcomes]
        /\ \A m \in Msgs : outcome[m] \subseteq outcome'[m]
        /\ client.kind = "mqtt" => \A m \in Msgs : m \in ToSet(client.parked) => "rejected" \in outcome'[m]
    BY <1>0, <2>1, PushTypes DEF P!Became, Outcomes
  <2>3. client' \in PushClient /\ client'.kind = client.kind  BY <1>0, <2>1, PushTypes DEF PushClient
  <2>4. PushTyped'
    <3>1. client'.parked = <<>> /\ client'.queue = client.queue  BY <2>1
    <3>2. QED  BY <1>0, <1>1, <2>1, <2>2, <2>3, <3>1 DEF PushTyped, SharedInv
  <2> DEFINE front == Handed \o client.queue
             p == client.parked
  <2>5. /\ front \in Seq(Msgs) /\ p \in Seq(Msgs) /\ Line = front \o p
        /\ front \in Seq(Nat) /\ p \in Seq(Nat)
    <3>1. Handed \in Seq(Msgs) /\ client.queue \in Seq(Msgs) /\ p \in Seq(Msgs) /\ Line = front \o p
      BY <1>0, LineProperties, PushTypes
    <3> HIDE DEF p
    <3>2. front \in Seq(Msgs)  BY <3>1, ConcatProperties
    <3> HIDE DEF front
    <3>3. QED  BY <1>0, <3>1, <3>2, PushTypes, SeqMonotonic
  <2>6. Line' = front
    <3>1. client.queue \o <<>> = client.queue  BY <1>0, PushTypes, ConcatEmptySeq
    <3>2. Handed' = Handed /\ client'.queue = client.queue /\ client'.parked = <<>>
      BY <1>1, <2>1 DEF Handed
    <3>3. Line' = Handed' \o (client'.queue \o client'.parked)  BY DEF Line
    <3>4. QED  BY <3>1, <3>2, <3>3
  <2> HIDE DEF front
  <2>7. ToSet(Line) = ToSet(Line') \cup ToSet(p)
    <3> HIDE DEF p
    <3>1. QED  BY <2>5, <2>6, ToSetConcat
  <2>8. client.kind # "pubsub" => Increasing(Line) /\ Increasing(Line')
    <3>1. Increasing(front \o p) => Increasing(front)
      <4> HIDE DEF p
      <4>1. QED  BY <2>5, IncreasingPart
    <3>2. QED  BY <1>0, <2>5, <2>6, <3>1 DEF PushOrdered
  <2>9. client.kind = "mqtt" => ToSet(p) \subseteq P!Answered'
    <3>1. ToSet(p) \subseteq Msgs  BY <2>5 DEF ToSet
    <3>2. QED  BY <2>2, <2>3, <3>1 DEF P!Answered, P!Kind
  <2>10. client.kind # "pubsub" => \A x \in ToSet(Line'), y \in ToSet(Line) :
            y < x => y \in ToSet(Line') \cup P!Answered'
    <3> SUFFICES ASSUME client.kind # "pubsub", NEW x \in ToSet(front), NEW y \in ToSet(p)
                 PROVE  ~(y < x)
      BY <2>6, <2>7
    <3>1. /\ front \o p \in Seq(Nat) /\ Len(front \o p) = Len(front) + Len(p)
          /\ \A i \in 1..(Len(front) + Len(p)) :
                (front \o p)[i] = IF i <= Len(front) THEN front[i] ELSE p[i - Len(front)]
      <4> HIDE DEF p
      <4>1. QED  BY <2>5, ConcatProperties
    <3>2. PICK i \in DOMAIN front : x = front[i]  BY DEF ToSet
    <3>3. PICK j \in DOMAIN p : y = p[j]  BY DEF ToSet
    <3>4. i \in 1..Len(front) /\ j \in 1..Len(p) /\ Len(front) \in Nat /\ Len(p) \in Nat
      BY <2>5
    <3> HIDE DEF p
    <3>5. i < j + Len(front) /\ i \in DOMAIN (front \o p) /\ j + Len(front) \in DOMAIN (front \o p)
      BY <3>1, <3>4
    <3>6. (front \o p)[i] < (front \o p)[j + Len(front)]
      BY <2>5, <2>8, <3>5 DEF Increasing
    <3>7. (front \o p)[i] = x /\ (front \o p)[j + Len(front)] = y
      BY <3>1, <3>2, <3>3, <3>4
    <3>8. x \in Nat /\ y \in Nat  BY <2>5, <3>2, <3>3, <3>4
    <3>9. QED  BY <3>6, <3>7, <3>8
  <2>11. ToSet(Line') \subseteq ToSet(Line)  BY <2>7
  <2>12. phase' = "run" \/ client.kind = "mqtt" => ToSet(Line) \subseteq ToSet(Line') \cup P!Answered'
    BY <2>1, <2>7, <2>9
  <2>13. client.kind # "pubsub" => Increasing(Line')  BY <2>8
  <2>14. /\ broker'.ready = broker.ready /\ broker'.leased = broker.leased
         /\ broker'.gone = broker.gone /\ phase' # "run"
    BY <1>1, <2>1
  <2>15. QED
    BY <1>2, <2>2, <2>3, <2>4, <2>10, <2>11, <2>12, <2>13, <2>14, PushKeeps
<1>4. CASE P!End
  <2>1. UNCHANGED <<client, outcome>> /\ phase = "stop" /\ phase' = "end"  BY <1>4 DEF P!End
  <2>2. Line' = Line  BY <1>1, <2>1 DEF Line, Handed
  <2>3. P!Answered' = P!Answered  BY <2>1 DEF P!Answered, P!Kind
  <2>4. PushTyped' /\ PushPlaces'
    BY <1>0, <1>1, <2>1 DEF PushTyped, SharedInv, PushPlaces
  <2>5. PushSound' /\ PushOrdered'
    BY <1>0, <1>1, <2>1, <2>2, <2>3 DEF PushSound, PushOrdered
  <2>6. P!Settled' = P!Settled
    <3>1. P!InClient' = P!InClient  BY <1>1, <2>1 DEF P!InClient, P!ToSet
    <3>2. QED  BY <1>1, <2>1, <3>1 DEF P!Settled, P!Kind
  <2>7. QED  BY <2>4, <2>5, <2>6 DEF PushInv
<1>5. QED  BY <1>3, <1>4

\* Every step keeps the invariant, and what is settled stays so.
LEMMA PushNextInv ==
    ASSUME PushInv, P!Next
    PROVE  PushInv' /\ P!Settled \subseteq P!Settled'
BY PushAmqpInv, PushMqttInv, PushYieldInv, PushStopInv, PushLeaseEndsInv, PushReleasedInv,
   PushCrashInv DEF P!Next, P!Progress

\* What the invariant says of the properties.
LEMMA PushImplies ==
    PushInv => /\ P!TypeOK /\ P!Settled \subseteq P!Answered
               /\ client.kind # "pubsub" => \A i \in DOMAIN held : \A m \in 1..(held[i].m - 1) :
                     m \in P!Answered \cup P!RefusedAtStop \/ \E j \in 1..(i - 1) : held[j].m = m
<1> SUFFICES ASSUME PushInv
             PROVE  /\ P!TypeOK /\ P!Settled \subseteq P!Answered
                    /\ client.kind # "pubsub" => \A i \in DOMAIN held : \A m \in 1..(held[i].m - 1) :
                          m \in P!Answered \cup P!RefusedAtStop \/ \E j \in 1..(i - 1) : held[j].m = m
  OBVIOUS
<1>0. PushTyped /\ PushPlaces /\ PushSound /\ PushOrdered  BY DEF PushInv
<1>1. P!SharedTypeOK
  BY <1>0, PushTypes DEF PushTyped, SharedInv, P!SharedTypeOK, P!Outcomes, Outcomes
<1>2. P!TypeOK
  <2>1. \A m \in Msgs : ~(m \in broker.leased /\ m \in broker.gone)  BY <1>0 DEF PushPlaces
  <2>2. QED  BY <1>0, <1>1, <2>1, PushTypes DEF P!TypeOK, P!Kind, PushTyped
<1>3. P!Settled \subseteq P!Answered
  <2>1. ToSet(Line) = P!InClient  BY <1>0, LineProperties
  <2>2. QED  BY <1>0, <2>1 DEF PushSound, P!Settled, P!Kind
<1>4. ASSUME client.kind # "pubsub", NEW i \in DOMAIN held, NEW m \in 1..(held[i].m - 1),
             m \notin P!Answered, m \notin P!RefusedAtStop
      PROVE  \E j \in 1..(i - 1) : held[j].m = m
  <2>1. /\ Line \in Seq(Nat) /\ Handed \in Seq(Msgs) /\ Len(Handed) = Len(held)
        /\ \A h \in DOMAIN held : h \in DOMAIN Line /\ Line[h] = held[h].m
    BY <1>0, LineProperties
  <2>2. held[i].m \in ToSet(Line)  BY <2>1 DEF ToSet
  <2>3. m \in ToSet(Line)
    <3>1. CASE phase = "run" \/ client.kind # "amqp"  BY <1>0, <1>4, <2>2, <3>1 DEF PushOrdered
    <3>2. CASE phase # "run" /\ client.kind = "amqp"
      <4>1. held[i].m \in Msgs /\ Msgs = 1..N /\ N \in Nat
        BY <1>0, PushTypes, SourcesAssumption DEF Msgs
      <4>2. m \in Msgs /\ m < held[i].m  BY <4>1
      <4>3. m \notin ToSet(broker.ready)
        <5>1. m \in ToSet(broker.ready) => held[i].m < m  BY <1>0, <1>4, <2>2 DEF PushOrdered
        <5>2. QED  BY <4>1, <4>2, <5>1
      <4>4. m \in broker.leased  BY <1>0, <1>4, <3>2, <4>2, <4>3 DEF PushOrdered
      <4>5. ToSet(Line) = P!InClient  BY <1>0, LineProperties
      <4>6. QED  BY <1>4, <3>2, <4>4, <4>5 DEF P!RefusedAtStop, P!Kind
    <3>3. QED  BY <3>1, <3>2
  <2>4. PICK j \in DOMAIN Line : Line[j] = m  BY <2>3 DEF ToSet
  <2>5. Line[j] < Line[i] /\ Line[i] \in Nat /\ i \in DOMAIN Line
    <3>1. held[i].m \in Nat  BY <1>0, PushTypes
    <3>2. QED  BY <2>1, <2>4, <3>1
  <2>6. j < i
    <3>1. i \in Nat /\ j \in Nat /\ Line[j] \in Nat  BY <2>1, <2>4, <2>5
    <3>2. ~(i < j)  BY <1>0, <1>4, <2>4, <2>5, <3>1 DEF PushOrdered, Increasing
    <3>3. i # j  BY <2>5, <3>1
    <3>4. QED  BY <3>1, <3>2, <3>3
  <2>7. j \in 1..(i - 1) /\ j \in DOMAIN held
    <3>1. i \in 1..Len(held) /\ Len(held) \in Nat /\ j \in 1..Len(Line) /\ DOMAIN held = 1..Len(held)
      BY SMTT(30), <1>0, <2>1, <2>4, PushTypes
    <3>2. QED  BY <2>6, <3>1
  <2>8. QED  BY <2>1, <2>4, <2>7
<1>5. QED  BY <1>2, <1>3, <1>4

-----------------------------------------------------------------------------
(* Kafka: a position that is committed has nothing before it that was not  *)
(* released, because the offsets of a partition are handed out one after   *)
(* the other from a committed position, are released in that order, and    *)
(* are forgotten when the group's generation ends.                         *)

KafkaCopy == [m : KafkaMsgs, epoch : Nat]
KafkaBroker == [committed : [Partitions -> Nat], mine : SUBSET Partitions, gen : Nat]
KafkaOffsets == UNION {[S -> Nat \cup {-1}] : S \in SUBSET Partitions}
KafkaClient ==
    [strategy : Strategies, epoch : Nat, gen : Nat, assigned : SUBSET Partitions,
     offsets : KafkaOffsets, next : [Partitions -> Nat],
     batch : {<<>>} \cup (Partitions \X Nat \X Nat), rejoins : BOOLEAN]

KafkaTyped ==
    /\ SharedInv(KafkaCopy, KafkaMsgs, MaxFaults)
    /\ broker \in KafkaBroker /\ client \in KafkaClient
    /\ DOMAIN client.offsets = client.assigned
    /\ \A p \in Partitions : broker.committed[p] <= LogEnd[p]
    /\ client.epoch <= client.gen /\ client.gen <= broker.gen /\ broker.gen <= faults + 1
    /\ client.gen = broker.gen => client.assigned = broker.mine

\* The batch that is being processed.
KafkaBatch == client.batch # <<>> =>
    /\ client.batch[1] \in client.assigned /\ phase = "run" /\ ~client.rejoins
    /\ client.next[client.batch[1]] <= client.batch[2]
    /\ client.batch[2] <= client.batch[3] + 1 /\ client.batch[3] < LogEnd[client.batch[1]]

\* The offset of a partition that is handed out next.
Frontier(p) == IF client.batch # <<>> /\ client.batch[1] = p THEN client.batch[2] ELSE client.next[p]
\* The copies of this epoch.
Now == {i \in DOMAIN held : held[i].epoch = client.epoch}
OfNow(p) == {i \in Now : held[i].m[1] = p}

\* What is before the frontier, or before a copy, or is tracked or committed.
FrontierAnswered == \A p \in client.assigned : \A o \in 0..(LogEnd[p] - 1) :
    o < Frontier(p) => <<p, o>> \in K!Answered \/ \E i \in OfNow(p) : held[i].m[2] = o
CopiesAnswered == \A i \in Now : \A o \in 0..(held[i].m[2] - 1) :
    <<held[i].m[1], o>> \in K!Answered \/ \E j \in OfNow(held[i].m[1]) : j < i /\ held[j].m[2] = o
TrackedAnswered == \A p \in client.assigned : \A o \in 0..client.offsets[p] : <<p, o>> \in K!Answered
CommittedAnswered == \A p \in Partitions : \A o \in 0..(broker.committed[p] - 1) : <<p, o>> \in K!Answered
KafkaAnswered == FrontierAnswered /\ CopiesAnswered /\ TrackedAnswered /\ CommittedAnswered

\* The copies of a partition are ascending, between what is tracked and the
\* frontier, which counts as long as the member consumes.
KafkaOrdered ==
    /\ \A i \in DOMAIN held : held[i].epoch <= client.epoch
    /\ \A i \in Now : held[i].m[1] \in client.assigned
    /\ \A i, j \in Now : i < j /\ held[i].m[1] = held[j].m[1] => held[i].m[2] < held[j].m[2]
    /\ \A i \in Now : client.offsets[held[i].m[1]] < held[i].m[2]
    /\ \A p \in client.assigned : client.offsets[p] < LogEnd[p]
    /\ phase = "run" /\ ~client.rejoins =>
          /\ \A i \in Now, p \in client.assigned : held[i].m[1] = p => held[i].m[2] < Frontier(p)
          /\ \A p \in client.assigned : client.offsets[p] < Frontier(p)

\* While the generation lasts, no other member commits, and our position only
\* grows.
KafkaPosition ==
    client.strategy # "AlwaysEarliest" /\ client.gen = broker.gen =>
        /\ \A i \in Now : broker.committed[held[i].m[1]] <= held[i].m[2]
        /\ \A p \in client.assigned :
              client.offsets[p] # -1 => broker.committed[p] <= client.offsets[p] + 1
        /\ phase = "run" /\ ~client.rejoins =>
              \A p \in client.assigned : broker.committed[p] <= Frontier(p)

KafkaInv == KafkaTyped /\ KafkaBatch /\ KafkaAnswered /\ KafkaOrdered /\ KafkaPosition

\* A message is a partition and an offset of its log.
LEMMA KafkaMessages ==
    /\ \A m \in KafkaMsgs : /\ m[1] \in Partitions /\ m[2] \in 0..(LogEnd[m[1]] - 1)
                            /\ m[2] \in Nat /\ m = <<m[1], m[2]>>
    /\ \A p \in Partitions : LogEnd[p] \in Nat
    /\ \A p \in Partitions : \A o \in 0..(LogEnd[p] - 1) : <<p, o>> \in KafkaMsgs
<1>1. \A p \in Partitions : LogEnd[p] \in Nat  BY SourcesAssumption
<1>2. ASSUME NEW m \in KafkaMsgs
      PROVE  /\ m[1] \in Partitions /\ m[2] \in 0..(LogEnd[m[1]] - 1)
             /\ m[2] \in Nat /\ m = <<m[1], m[2]>>
  <2>1. PICK p \in Partitions : \E o \in 0..(LogEnd[p] - 1) : m = <<p, o>>  BY DEF KafkaMsgs
  <2>2. PICK o \in 0..(LogEnd[p] - 1) : m = <<p, o>>  BY <2>1
  <2>3. m[1] = p /\ m[2] = o  BY <2>2
  <2>4. QED  BY <1>1, <2>2, <2>3
<1>3. \A p \in Partitions : \A o \in 0..(LogEnd[p] - 1) : <<p, o>> \in KafkaMsgs
  BY DEF KafkaMsgs
<1>4. QED  BY <1>1, <1>2, <1>3

\* The types once more, as the steps below use them.
LEMMA KafkaTypes ==
    ASSUME KafkaTyped
    PROVE  /\ client.strategy \in Strategies /\ client.epoch \in Nat /\ client.gen \in Nat
           /\ client.assigned \in SUBSET Partitions
           /\ client.offsets \in [client.assigned -> Nat \cup {-1}]
           /\ client.next \in [Partitions -> Nat] /\ client.rejoins \in BOOLEAN
           /\ client.batch # <<>> =>
                 /\ client.batch[1] \in Partitions /\ client.batch[2] \in Nat
                 /\ client.batch[3] \in Nat
                 /\ client.batch = <<client.batch[1], client.batch[2], client.batch[3]>>
           /\ client = [strategy |-> client.strategy, epoch |-> client.epoch, gen |-> client.gen,
                        assigned |-> client.assigned, offsets |-> client.offsets,
                        next |-> client.next, batch |-> client.batch, rejoins |-> client.rejoins]
           /\ broker.committed \in [Partitions -> Nat] /\ broker.mine \in SUBSET Partitions
           /\ broker.gen \in Nat
           /\ broker = [committed |-> broker.committed, mine |-> broker.mine, gen |-> broker.gen]
           /\ held \in Seq(KafkaCopy) /\ outcome \in [KafkaMsgs -> SUBSET Outcomes]
           /\ \A i \in DOMAIN held : /\ held[i].m \in KafkaMsgs /\ held[i].epoch \in Nat
                                     /\ held[i] \in KafkaCopy /\ i \in Nat
                                     /\ held[i].m[1] \in Partitions /\ held[i].m[2] \in Nat
                                     /\ held[i].m[2] < LogEnd[held[i].m[1]]
                                     /\ held[i].m = <<held[i].m[1], held[i].m[2]>>
           /\ \A p \in client.assigned : client.offsets[p] \in Int /\ client.offsets[p] >= -1
<1>1. /\ client.strategy \in Strategies /\ client.epoch \in Nat /\ client.gen \in Nat
      /\ client.assigned \in SUBSET Partitions /\ client.offsets \in KafkaOffsets
      /\ client.next \in [Partitions -> Nat] /\ client.rejoins \in BOOLEAN
      /\ client.batch \in {<<>>} \cup (Partitions \X Nat \X Nat)
      /\ client = [strategy |-> client.strategy, epoch |-> client.epoch, gen |-> client.gen,
                   assigned |-> client.assigned, offsets |-> client.offsets,
                   next |-> client.next, batch |-> client.batch, rejoins |-> client.rejoins]
  BY DEF KafkaTyped, KafkaClient
<1>2. client.offsets \in [client.assigned -> Nat \cup {-1}]
  <2>1. PICK S \in SUBSET Partitions : client.offsets \in [S -> Nat \cup {-1}]
    BY <1>1 DEF KafkaOffsets
  <2>2. S = client.assigned  BY <2>1 DEF KafkaTyped
  <2>3. QED  BY <2>1, <2>2
<1>3. client.batch # <<>> =>
         /\ client.batch[1] \in Partitions /\ client.batch[2] \in Nat /\ client.batch[3] \in Nat
         /\ client.batch = <<client.batch[1], client.batch[2], client.batch[3]>>
  BY <1>1
<1>4. /\ broker.committed \in [Partitions -> Nat] /\ broker.mine \in SUBSET Partitions
      /\ broker.gen \in Nat
      /\ broker = [committed |-> broker.committed, mine |-> broker.mine, gen |-> broker.gen]
  BY DEF KafkaTyped, KafkaBroker
<1>5. held \in Seq(KafkaCopy) /\ outcome \in [KafkaMsgs -> SUBSET Outcomes]
  BY DEF KafkaTyped, SharedInv
<1>6. ASSUME NEW i \in DOMAIN held
      PROVE  /\ held[i].m \in KafkaMsgs /\ held[i].epoch \in Nat
             /\ held[i] \in KafkaCopy /\ i \in Nat
             /\ held[i].m[1] \in Partitions /\ held[i].m[2] \in Nat
             /\ held[i].m[2] < LogEnd[held[i].m[1]]
             /\ held[i].m = <<held[i].m[1], held[i].m[2]>>
  <2>1. held[i] \in KafkaCopy /\ i \in Nat  BY <1>5
  <2>2. held[i].m \in KafkaMsgs /\ held[i].epoch \in Nat  BY <2>1 DEF KafkaCopy
  <2> DEFINE m == held[i].m
  <2>3. m \in KafkaMsgs  BY <2>2
  <2> HIDE DEF m
  <2>4. /\ m[1] \in Partitions /\ m[2] \in 0..(LogEnd[m[1]] - 1) /\ m[2] \in Nat
        /\ m = <<m[1], m[2]>> /\ LogEnd[m[1]] \in Nat
    BY <2>3, KafkaMessages
  <2>5. m[2] < LogEnd[m[1]]  BY <2>4
  <2>6. QED  BY <2>1, <2>2, <2>4, <2>5 DEF m
<1>7. \A p \in client.assigned : client.offsets[p] \in Int /\ client.offsets[p] >= -1
  BY <1>2
<1>8. QED  BY <1>1, <1>2, <1>3, <1>4, <1>5, <1>6, <1>7

\* The batch without its next offset.
LEMMA KafkaBatchMoves ==
    ASSUME KafkaTyped, client.batch # <<>>, client' = [client EXCEPT !.batch[2] = @ + 1]
    PROVE  /\ client' = [client EXCEPT !.batch = <<client.batch[1], client.batch[2] + 1, client.batch[3]>>]
           /\ client' \in KafkaClient
<1>1. /\ client.batch[1] \in Partitions /\ client.batch[2] \in Nat /\ client.batch[3] \in Nat
      /\ client.batch = <<client.batch[1], client.batch[2], client.batch[3]>>
  BY KafkaTypes
<1> DEFINE b == client.batch
<1>2. [b EXCEPT ![2] = @ + 1] = <<b[1], b[2] + 1, b[3]>>
  <2> HIDE DEF b
  <2>1. \A x, y, z : [<<x, y, z>> EXCEPT ![2] = y + 1] = <<x, y + 1, z>>  OBVIOUS
  <2>2. b = <<b[1], b[2], b[3]>>  BY <1>1 DEF b
  <2>3. QED  BY <2>1, <2>2
<1>3. client' = [client EXCEPT !.batch = [b EXCEPT ![2] = @ + 1]]  OBVIOUS
<1>4. <<b[1], b[2] + 1, b[3]>> \in {<<>>} \cup (Partitions \X Nat \X Nat)  BY <1>1
<1> HIDE DEF b
<1>5. QED  BY <1>2, <1>3, <1>4 DEF b, KafkaTyped, KafkaClient

\* The invariant holds at first.
LEMMA KafkaInit == K!Init => KafkaInv
<1> SUFFICES ASSUME K!Init PROVE KafkaInv  OBVIOUS
<1> USE SourcesAssumption
<1>1. PICK s \in Strategies : client = K!Fresh(s)  BY DEF K!Init
<1>2. client = [strategy |-> s, epoch |-> 0, gen |-> 0, assigned |-> {}, offsets |-> <<>>,
                next |-> [p \in Partitions |-> 0], batch |-> <<>>, rejoins |-> FALSE]
  BY <1>1 DEF K!Fresh, K!NoBatch
<1>3. broker = [committed |-> [p \in Partitions |-> 0], mine |-> Partitions, gen |-> 1]
      /\ held = <<>> /\ outcome = [m \in KafkaMsgs |-> {}] /\ phase = "run" /\ faults = 0
  BY DEF K!Init, K!SharedInit
<1>4. KafkaTyped
  <2>1. client \in KafkaClient
    <3>1. <<>> \in [{} -> Nat \cup {-1}]  OBVIOUS
    <3>2. <<>> \in KafkaOffsets  BY <3>1 DEF KafkaOffsets
    <3>3. QED  BY <1>2, <3>2 DEF KafkaClient
  <2>2. broker \in KafkaBroker /\ SharedInv(KafkaCopy, KafkaMsgs, MaxFaults)
    BY <1>3 DEF KafkaBroker, SharedInv, Outcomes
  <2>3. DOMAIN client.offsets = client.assigned  BY <1>2
  <2>4. \A p \in Partitions : broker.committed[p] <= LogEnd[p]  BY <1>3
  <2>5. /\ client.epoch = 0 /\ client.gen = 0 /\ broker.gen = 1 /\ faults = 0
    BY <1>2, <1>3
  <2>6. QED  BY <2>1, <2>2, <2>3, <2>4, <2>5 DEF KafkaTyped
<1>5. KafkaBatch  BY <1>2 DEF KafkaBatch
<1>6. Now = {} /\ client.assigned = {} /\ \A p \in Partitions : broker.committed[p] = 0
  BY <1>2, <1>3 DEF Now
<1>7. KafkaAnswered
  BY <1>6 DEF KafkaAnswered, FrontierAnswered, CopiesAnswered, TrackedAnswered, CommittedAnswered
<1>8. KafkaOrdered  BY <1>3, <1>6 DEF KafkaOrdered
<1>9. KafkaPosition  BY <1>6 DEF KafkaPosition
<1>10. QED  BY <1>4, <1>5, <1>7, <1>8, <1>9 DEF KafkaInv

\* What is answered stays answered.
LEMMA KafkaBecame ==
    ASSUME KafkaTyped, NEW o \in Outcomes, NEW ms \in SUBSET KafkaMsgs,
           outcome' = K!Became(o, ms)
    PROVE  /\ outcome' \in [KafkaMsgs -> SUBSET Outcomes]
           /\ K!Answered' = K!Answered \cup ms
<1>1. outcome \in [KafkaMsgs -> SUBSET Outcomes]  BY KafkaTypes
<1>2. outcome' = [m \in KafkaMsgs |-> IF m \in ms THEN outcome[m] \cup {o} ELSE outcome[m]]
  BY DEF K!Became
<1>3. outcome' \in [KafkaMsgs -> SUBSET Outcomes]  BY <1>1, <1>2
<1>4. \A m \in KafkaMsgs : outcome'[m] # {} <=> outcome[m] # {} \/ m \in ms  BY <1>1, <1>2
<1>5. QED  BY <1>3, <1>4 DEF K!Answered

\* The group's coordinator starts a generation.

\* A rebalance starts a generation, with other partitions for this member.
LEMMA KafkaRebalanceInv == ASSUME KafkaInv, K!Rebalance PROVE KafkaInv' /\ K!Settled \subseteq K!Settled'
<1>0. KafkaTyped  BY DEF KafkaInv
<1>1. PICK mine \in SUBSET Partitions : broker' = [broker EXCEPT !.mine = mine, !.gen = @ + 1]
  BY Zenon DEF K!Rebalance
<1>2. UNCHANGED <<client, held, outcome, phase>> /\ faults' = faults + 1 /\ faults < MaxFaults
  BY DEF K!Rebalance, K!Fault
<1>3. broker' = [committed |-> broker.committed, mine |-> mine, gen |-> broker.gen + 1]
  BY <1>0, <1>1, KafkaTypes
<1>4. /\ broker' \in KafkaBroker /\ broker'.gen = broker.gen + 1
      /\ broker'.committed = broker.committed
  BY <1>0, <1>3, KafkaTypes DEF KafkaBroker
<1>5. /\ client.gen \in Nat /\ broker.gen \in Nat /\ faults \in 0..MaxFaults /\ client.gen <= broker.gen
      /\ broker.gen <= faults + 1
  BY <1>0, KafkaTypes DEF KafkaTyped, SharedInv
<1>6. client.gen < broker.gen + 1 /\ faults' \in 0..MaxFaults
  BY <1>2, <1>5, SourcesAssumption
<1>7. KafkaTyped'  BY <1>0, <1>2, <1>4, <1>5, <1>6 DEF KafkaTyped, SharedInv
<1>8. KafkaBatch' /\ KafkaAnswered' /\ KafkaOrdered'
  BY <1>2, <1>4 DEF KafkaInv, KafkaBatch, KafkaAnswered, FrontierAnswered, CopiesAnswered,
     TrackedAnswered, CommittedAnswered, KafkaOrdered, Now, OfNow, Frontier, K!Answered
<1>9. KafkaPosition'
  <2>1. client'.gen # broker'.gen  BY <1>2, <1>4, <1>5, <1>6
  <2>2. QED  BY <2>1 DEF KafkaPosition
<1>10. K!Settled \subseteq K!Settled'  BY <1>2, <1>4 DEF K!Settled, K!Rewinds
<1>11. QED  BY <1>7, <1>8, <1>9, <1>10 DEF KafkaInv

\* Another member commits, of a partition that is not ours.
LEMMA KafkaOtherInv == ASSUME KafkaInv, K!OtherConsumes PROVE KafkaInv' /\ K!Settled \subseteq K!Settled'
<1>0. KafkaTyped  BY DEF KafkaInv
<1>1. PICK p \in Partitions \ broker.mine :
        /\ broker.committed[p] < LogEnd[p]
        /\ broker' = [broker EXCEPT !.committed[p] = @ + 1]
        /\ outcome' = K!Became("other", {<<p, broker.committed[p]>>})
        /\ UNCHANGED <<client, held, phase, faults>>
  BY DEF K!OtherConsumes
<1> DEFINE c == broker.committed
           d == [c EXCEPT ![p] = @ + 1]
<1>2. /\ c \in [Partitions -> Nat] /\ \A q \in Partitions : LogEnd[q] \in Nat /\ c[q] <= LogEnd[q]
  BY <1>0, KafkaTypes, KafkaMessages DEF KafkaTyped
<1>3. /\ d \in [Partitions -> Nat] /\ (\A q \in Partitions : d[q] <= LogEnd[q])
      /\ d[p] = c[p] + 1 /\ (\A q \in Partitions \ {p} : d[q] = c[q])
  BY <1>1, <1>2
<1>4. broker' = [committed |-> d, mine |-> broker.mine, gen |-> broker.gen]
  BY <1>0, <1>1, KafkaTypes
<1>5. broker' \in KafkaBroker /\ broker'.committed = d /\ broker'.mine = broker.mine /\ broker'.gen = broker.gen
  BY <1>0, <1>3, <1>4, KafkaTypes DEF KafkaBroker
<1>6. <<p, c[p]>> \in KafkaMsgs
  BY <1>1, <1>2, KafkaMessages
<1>7. /\ outcome' \in [KafkaMsgs -> SUBSET Outcomes]
      /\ K!Answered' = K!Answered \cup {<<p, c[p]>>}
  <2> DEFINE ms == {<<p, c[p]>>}
  <2>1. ms \in SUBSET KafkaMsgs /\ outcome' = K!Became("other", ms) /\ "other" \in Outcomes
    BY <1>1, <1>6 DEF Outcomes
  <2> HIDE DEF ms
  <2>2. outcome' \in [KafkaMsgs -> SUBSET Outcomes] /\ K!Answered' = K!Answered \cup ms
    BY <1>0, <2>1, KafkaBecame
  <2>3. QED  BY <2>2 DEF ms
<1> HIDE DEF c, d
<1>8. KafkaTyped'  BY <1>0, <1>1, <1>3, <1>5, <1>7 DEF KafkaTyped, SharedInv
<1>9. CommittedAnswered'
  <2> SUFFICES ASSUME NEW q \in Partitions, NEW n \in 0..(d[q] - 1) PROVE <<q, n>> \in K!Answered'
    BY Zenon, <1>5 DEF CommittedAnswered
  <2>1. CASE q = p /\ n = c[p]  BY <1>7, <2>1
  <2>2. CASE ~(q = p /\ n = c[p])
    <3>1. n \in 0..(c[q] - 1)  BY <1>2, <1>3, <2>2
    <3>2. <<q, n>> \in K!Answered  BY <3>1 DEF KafkaInv, KafkaAnswered, CommittedAnswered, c
    <3>3. QED  BY <1>7, <3>2
  <2>3. QED  BY <2>1, <2>2
<1>10. KafkaBatch' /\ KafkaOrdered'
  BY <1>1 DEF KafkaInv, KafkaBatch, KafkaOrdered, Now, Frontier
<1>11. FrontierAnswered' /\ CopiesAnswered' /\ TrackedAnswered'
  <2>1. K!Answered \subseteq K!Answered'  BY <1>7
  <2>2. FrontierAnswered'
    BY <1>1, <2>1 DEF KafkaInv, KafkaAnswered, FrontierAnswered, Frontier, OfNow, Now
  <2>3. CopiesAnswered'
    BY <1>1, <2>1 DEF KafkaInv, KafkaAnswered, CopiesAnswered, OfNow, Now
  <2>4. TrackedAnswered'
    BY Zenon, <1>1, <2>1 DEF KafkaInv, KafkaAnswered, TrackedAnswered
  <2>5. QED  BY <2>2, <2>3, <2>4
<1>12. KafkaPosition'
  <2> SUFFICES ASSUME client.strategy # "AlwaysEarliest", client.gen = broker.gen
               PROVE  /\ \A i \in Now : d[held[i].m[1]] <= held[i].m[2]
                      /\ \A q \in client.assigned :
                            client.offsets[q] # -1 => d[q] <= client.offsets[q] + 1
                      /\ phase = "run" /\ ~client.rejoins =>
                            \A q \in client.assigned : d[q] <= Frontier(q)
    BY <1>1, <1>5 DEF KafkaPosition, Now, Frontier
  <2>1. \A q \in client.assigned : d[q] = c[q]
    BY <1>0, <1>1, <1>3, KafkaTypes DEF KafkaTyped
  <2>2. \A i \in Now : held[i].m[1] \in client.assigned  BY DEF KafkaInv, KafkaOrdered
  <2>3. QED  BY <2>1, <2>2 DEF KafkaInv, KafkaPosition, c
<1>13. K!Settled \subseteq K!Settled'
  <2>1. \A m \in KafkaMsgs : m[2] < c[m[1]] => m[2] < d[m[1]]
    <3> SUFFICES ASSUME NEW m \in KafkaMsgs, m[2] < c[m[1]] PROVE m[2] < d[m[1]]  OBVIOUS
    <3>1. m[1] \in Partitions /\ m[2] \in Nat  BY KafkaMessages
    <3>2. QED  BY <1>2, <1>3, <3>1
  <2>2. QED  BY <1>1, <1>5, <2>1 DEF K!Settled, K!Rewinds, c
<1>14. QED  BY <1>8, <1>9, <1>10, <1>11, <1>12, <1>13 DEF KafkaInv, KafkaAnswered

\* Steps of the consumer that hand out nothing: the frontier stays, or falls
\* behind when the member no longer consumes.
LEMMA KafkaQuiet ==
    ASSUME KafkaInv, UNCHANGED <<broker, held, outcome, faults>>, client' \in KafkaClient,
           client'.epoch = client.epoch, client'.gen = client.gen,
           client'.assigned = client.assigned, client'.offsets = client.offsets,
           client'.strategy = client.strategy, KafkaBatch', phase' \in {"run", "stop", "end"},
           \A p \in client.assigned : Frontier(p)' <= Frontier(p),
           phase' = "run" /\ ~client'.rejoins =>
              phase = "run" /\ ~client.rejoins /\ \A p \in client.assigned : Frontier(p)' = Frontier(p)
    PROVE  KafkaInv' /\ K!Settled \subseteq K!Settled'
<1>0. KafkaTyped  BY DEF KafkaInv
<1>1. KafkaTyped'  BY <1>0 DEF KafkaTyped, SharedInv
<1>2. K!Answered' = K!Answered /\ Now' = Now /\ \A p : OfNow(p)' = OfNow(p)
  BY DEF K!Answered, Now, OfNow
<1>3. \A p \in client.assigned : Frontier(p) \in Nat /\ Frontier(p)' \in Nat
  <2>1. \A p \in client.assigned : Frontier(p) \in Nat  BY <1>0, KafkaTypes DEF Frontier
  <2>2. client'.next \in [Partitions -> Nat] /\ (client'.batch # <<>> => client'.batch[2] \in Nat)
    BY DEF KafkaClient
  <2>3. \A p \in client.assigned : Frontier(p)' \in Nat  BY <1>0, <2>2, KafkaTypes DEF Frontier
  <2>4. QED  BY <2>1, <2>3
<1>4. FrontierAnswered'
  <2> SUFFICES ASSUME NEW p \in client.assigned, NEW o \in 0..(LogEnd[p] - 1), o < Frontier(p)'
               PROVE  <<p, o>> \in K!Answered \/ \E i \in OfNow(p) : held[i].m[2] = o
    BY <1>2 DEF FrontierAnswered
  <2>1. o < Frontier(p)  BY <1>3
  <2>2. QED  BY <2>1 DEF KafkaInv, KafkaAnswered, FrontierAnswered
<1>5. CopiesAnswered' /\ TrackedAnswered' /\ CommittedAnswered'
  BY <1>2 DEF KafkaInv, KafkaAnswered, CopiesAnswered, TrackedAnswered, CommittedAnswered
<1>6. KafkaOrdered'
  <2>1. \A i \in Now : held[i].m[1] \in client.assigned  BY DEF KafkaInv, KafkaOrdered
  <2>2. QED  BY <1>2, <2>1 DEF KafkaInv, KafkaOrdered
<1>7. KafkaPosition'  BY <1>2 DEF KafkaInv, KafkaPosition
<1>8. K!Settled \subseteq K!Settled'  BY DEF K!Settled, K!Rewinds
<1>9. QED  BY <1>1, <1>4, <1>5, <1>6, <1>7, <1>8 DEF KafkaInv, KafkaAnswered

\* The steps of the consumer that hand out and commit nothing.
LEMMA KafkaConsumerInv ==
    ASSUME KafkaInv, K!Fetch \/ K!EndBatch \/ K!Heartbeat \/ K!Stop \/ K!End
    PROVE  KafkaInv' /\ K!Settled \subseteq K!Settled'
<1>0. KafkaTyped /\ KafkaBatch /\ client \in KafkaClient /\ phase \in {"run", "stop", "end"}
  BY DEF KafkaInv, KafkaTyped, SharedInv
<1> USE DEF K!NoBatch
<1>1. CASE K!Fetch
  <2>1. PICK p \in client.assigned, last \in Nat :
          /\ client.batch = <<>> /\ ~client.rejoins /\ phase = "run"
          /\ client.next[p] <= last /\ last < LogEnd[p]
          /\ client' = [client EXCEPT !.batch = <<p, client.next[p], last>>]
          /\ UNCHANGED <<broker, held, outcome, phase, faults>>
    <3>1. PICK p \in client.assigned : \E last \in client.next[p]..(LogEnd[p] - 1) :
          /\ client.batch = <<>> /\ ~client.rejoins /\ phase = "run"
          /\ client' = [client EXCEPT !.batch = <<p, client.next[p], last>>]
          /\ UNCHANGED <<broker, held, outcome, phase, faults>>
      BY <1>1 DEF K!Fetch
    <3>2. client.next[p] \in Nat /\ LogEnd[p] \in Nat  BY <1>0, KafkaTypes, KafkaMessages
    <3>3. QED  BY <3>1, <3>2
  <2>2. p \in Partitions /\ client.next[p] \in Nat  BY <1>0, KafkaTypes
  <2> DEFINE b == <<p, client.next[p], last>>
  <2>3. b \in Partitions \X Nat \X Nat /\ b[1] = p /\ b[2] = client.next[p] /\ b[3] = last /\ b # <<>>
    BY <2>2
  <2>4. client' = [client EXCEPT !.batch = b]  BY <2>1
  <2> HIDE DEF b
  <2>5. /\ client' \in KafkaClient /\ client'.epoch = client.epoch /\ client'.gen = client.gen
        /\ client'.assigned = client.assigned /\ client'.offsets = client.offsets
        /\ client'.strategy = client.strategy /\ client'.next = client.next
        /\ client'.rejoins = client.rejoins /\ client'.batch = b
    BY <1>0, <2>3, <2>4 DEF KafkaClient
  <2>6. KafkaBatch'  BY <2>1, <2>2, <2>3, <2>5 DEF KafkaBatch
  <2>7. \A q \in client.assigned : Frontier(q)' = Frontier(q)
    BY <2>1, <2>3, <2>5 DEF Frontier
  <2>8. \A q \in client.assigned : Frontier(q)' <= Frontier(q)
    <3>1. \A q \in client.assigned : Frontier(q) \in Nat  BY <1>0, KafkaTypes DEF Frontier
    <3>2. QED  BY <2>7, <3>1
  <2>9. QED  BY <1>0, <2>1, <2>5, <2>6, <2>7, <2>8, KafkaQuiet
<1>2. CASE K!EndBatch
  <2> DEFINE p == client.batch[1]
             n == [client.next EXCEPT ![p] = client.batch[3] + 1]
  <2>1. /\ client.batch # <<>> /\ client.batch[2] = client.batch[3] + 1 /\ p \in client.assigned
        /\ p \in Partitions /\ client.batch[3] \in Nat
    BY <1>0, <1>2, KafkaTypes DEF K!EndBatch, K!InBatch, KafkaBatch
  <2>2. /\ client' = [client EXCEPT !.batch = <<>>, !.next = n]
        /\ UNCHANGED <<broker, held, outcome, phase, faults>>
    BY <1>2, <2>1 DEF K!EndBatch
  <2>3. n \in [Partitions -> Nat] /\ n[p] = client.batch[2] /\ \A q \in Partitions \ {p} : n[q] = client.next[q]
    BY <1>0, <2>1, KafkaTypes
  <2> HIDE DEF n
  <2>4. /\ client' \in KafkaClient /\ client'.epoch = client.epoch /\ client'.gen = client.gen
        /\ client'.assigned = client.assigned /\ client'.offsets = client.offsets
        /\ client'.strategy = client.strategy /\ client'.next = n
        /\ client'.rejoins = client.rejoins /\ client'.batch = <<>>
    BY <1>0, <2>2, <2>3 DEF KafkaClient
  <2>5. KafkaBatch'  BY <2>4 DEF KafkaBatch
  <2>6. \A q \in client.assigned : Frontier(q)' = Frontier(q)
    <3>1. client.assigned \subseteq Partitions  BY <1>0, KafkaTypes
    <3>2. QED  BY <2>1, <2>3, <2>4, <3>1 DEF Frontier
  <2>7. \A q \in client.assigned : Frontier(q)' <= Frontier(q)
    <3>1. \A q \in client.assigned : Frontier(q) \in Nat  BY <1>0, KafkaTypes DEF Frontier
    <3>2. QED  BY <2>6, <3>1
  <2>8. QED  BY <1>0, <2>2, <2>4, <2>5, <2>6, <2>7, KafkaQuiet
<1>3. ASSUME UNCHANGED <<broker, held, outcome, faults>>, client' \in KafkaClient,
             client'.epoch = client.epoch, client'.gen = client.gen,
             client'.assigned = client.assigned, client'.offsets = client.offsets,
             client'.strategy = client.strategy, client'.next = client.next,
             client'.batch = <<>>, phase' \in {"run", "stop", "end"},
             phase' = "run" => client'.rejoins
      PROVE  KafkaInv' /\ K!Settled \subseteq K!Settled'
  <2>1. KafkaBatch'  BY <1>3 DEF KafkaBatch
  <2>2. \A q \in client.assigned : Frontier(q)' <= Frontier(q)
    <3> SUFFICES ASSUME NEW q \in client.assigned PROVE client.next[q] <= Frontier(q)
      BY <1>3 DEF Frontier
    <3>1. client.next[q] \in Nat  BY <1>0, KafkaTypes
    <3>2. QED  BY <1>0, <3>1 DEF Frontier, KafkaBatch
  <2>3. QED  BY <1>3, <2>1, <2>2, KafkaQuiet
<1>4. CASE K!Heartbeat
  <2>1. /\ client' = [client EXCEPT !.batch = <<>>, !.rejoins = TRUE]
        /\ UNCHANGED <<broker, held, outcome, phase, faults>>
    BY <1>4 DEF K!Heartbeat
  <2>2. /\ client' \in KafkaClient /\ client'.epoch = client.epoch /\ client'.gen = client.gen
        /\ client'.assigned = client.assigned /\ client'.offsets = client.offsets
        /\ client'.strategy = client.strategy /\ client'.next = client.next
        /\ client'.rejoins = TRUE /\ client'.batch = <<>>
    BY <1>0, <2>1 DEF KafkaClient
  <2>3. QED  BY <1>0, <1>3, <2>1, <2>2
<1>5. CASE K!Stop
  <2>1. /\ client' = [client EXCEPT !.batch = <<>>]
        /\ UNCHANGED <<broker, held, outcome, faults>> /\ phase' = "stop"
    BY <1>5 DEF K!Stop, K!AskToStop
  <2>2. /\ client' \in KafkaClient /\ client'.epoch = client.epoch /\ client'.gen = client.gen
        /\ client'.assigned = client.assigned /\ client'.offsets = client.offsets
        /\ client'.strategy = client.strategy /\ client'.next = client.next
        /\ client'.batch = <<>>
    BY <1>0, <2>1 DEF KafkaClient
  <2>3. QED  BY <1>3, <2>1, <2>2
<1>6. CASE K!End
  <2>1. /\ UNCHANGED <<broker, client, held, outcome, faults>> /\ phase = "stop" /\ phase' = "end"
    BY <1>6 DEF K!End
  <2>2. client.batch = <<>>  BY <1>0, <2>1 DEF KafkaBatch
  <2>3. QED  BY <1>0, <1>3, <2>1, <2>2
<1>7. QED  BY <1>1, <1>2, <1>4, <1>5, <1>6

\* A commit: what is tracked was released, and is not behind what is committed.
LEMMA KafkaCommitInv ==
    ASSUME KafkaInv, K!Timer \/ K!Dispose
    PROVE  KafkaInv' /\ K!Settled \subseteq K!Settled'
<1>0. KafkaTyped /\ KafkaAnswered /\ KafkaOrdered /\ KafkaPosition  BY DEF KafkaInv
<1>1. /\ client.gen = broker.gen /\ broker' = [broker EXCEPT !.committed = K!Committed]
      /\ UNCHANGED <<client, held, outcome, phase, faults>>
  BY DEF K!Timer, K!Dispose, K!Commit
<1> DEFINE c == broker.committed
           d == K!Committed
           t == client.offsets
<1>2. /\ c \in [Partitions -> Nat] /\ t \in [client.assigned -> Nat \cup {-1}]
      /\ client.assigned \in SUBSET Partitions
      /\ \A p \in client.assigned : t[p] < LogEnd[p] /\ LogEnd[p] \in Nat
  BY <1>0, KafkaTypes, KafkaMessages DEF KafkaOrdered
<1>3. /\ \A p \in client.assigned : t[p] # -1 => d[p] = t[p] + 1
      /\ \A p \in Partitions : (p \in client.assigned /\ t[p] # -1) \/ d[p] = c[p]
  BY <1>2 DEF K!Committed, K!ToCommit, K!NoOffset
<1>4. d \in [Partitions -> Nat]
  <2>1. d = [p \in Partitions |-> IF p \in K!ToCommit THEN t[p] + 1 ELSE c[p]]  BY DEF K!Committed
  <2>2. \A p \in K!ToCommit : t[p] \in Nat  BY <1>2 DEF K!ToCommit, K!NoOffset
  <2>3. QED  BY <1>2, <2>1, <2>2
<1> HIDE DEF c, d, t
<1>5. broker' = [committed |-> d, mine |-> broker.mine, gen |-> broker.gen]
  BY <1>0, <1>1, KafkaTypes DEF d
<1>6. broker' \in KafkaBroker /\ broker'.committed = d /\ broker'.mine = broker.mine /\ broker'.gen = broker.gen
  BY <1>0, <1>4, <1>5, KafkaTypes DEF KafkaBroker
<1>7. \A p \in Partitions : d[p] <= LogEnd[p]
  <2> SUFFICES ASSUME NEW p \in Partitions PROVE d[p] <= LogEnd[p]  OBVIOUS
  <2>1. CASE p \in client.assigned /\ t[p] # -1  BY <1>2, <1>3, <2>1
  <2>2. CASE d[p] = c[p]  BY <1>0, <2>2 DEF KafkaTyped, c
  <2>3. QED  BY <1>3, <2>1, <2>2
<1>8. KafkaTyped'  BY <1>0, <1>1, <1>6, <1>7 DEF KafkaTyped, SharedInv
<1>9. CommittedAnswered'
  <2> SUFFICES ASSUME NEW p \in Partitions, NEW n \in 0..(d[p] - 1) PROVE <<p, n>> \in K!Answered
    BY Zenon, <1>1, <1>6 DEF CommittedAnswered, K!Answered
  <2>1. CASE p \in client.assigned /\ t[p] # -1
    <3>1. n \in 0..t[p]  BY <1>2, <1>3, <2>1
    <3>2. QED  BY <1>0, <2>1, <3>1 DEF KafkaAnswered, TrackedAnswered, t
  <2>2. CASE d[p] = c[p]  BY <1>0, <2>2 DEF KafkaAnswered, CommittedAnswered, c
  <2>3. QED  BY <1>3, <2>1, <2>2
<1>10. KafkaBatch' /\ KafkaOrdered' /\ FrontierAnswered' /\ CopiesAnswered' /\ TrackedAnswered'
  BY <1>1 DEF KafkaInv, KafkaBatch, KafkaOrdered, KafkaAnswered, FrontierAnswered, CopiesAnswered,
     TrackedAnswered, Now, OfNow, Frontier, K!Answered
<1>11. KafkaPosition'
  <2> SUFFICES ASSUME client.strategy # "AlwaysEarliest"
               PROVE  /\ \A i \in Now : d[held[i].m[1]] <= held[i].m[2]
                      /\ \A p \in client.assigned : t[p] # -1 => d[p] <= t[p] + 1
                      /\ phase = "run" /\ ~client.rejoins =>
                            \A p \in client.assigned : d[p] <= Frontier(p)
    BY <1>1, <1>6 DEF KafkaPosition, Now, Frontier, t
  <2>1. /\ \A i \in Now : c[held[i].m[1]] <= held[i].m[2]
        /\ \A p \in client.assigned : t[p] # -1 => c[p] <= t[p] + 1
        /\ phase = "run" /\ ~client.rejoins => \A p \in client.assigned : c[p] <= Frontier(p)
    BY <1>0, <1>1 DEF KafkaPosition, c, t
  <2>2. \A p \in client.assigned : t[p] # -1 => d[p] <= t[p] + 1  BY <1>2, <1>3
  <2>3. ASSUME NEW i \in Now PROVE d[held[i].m[1]] <= held[i].m[2]
    <3>1. i \in DOMAIN held  BY DEF Now
    <3>2. held[i].m[1] \in client.assigned /\ t[held[i].m[1]] < held[i].m[2]
      BY <1>0 DEF KafkaOrdered, t
    <3>3. held[i].m[1] \in Partitions /\ held[i].m[2] \in Nat  BY <1>0, <3>1, KafkaTypes
    <3>4. t[held[i].m[1]] # -1 \/ d[held[i].m[1]] = c[held[i].m[1]]  BY <1>3, <3>3
    <3>5. QED  BY <1>2, <1>3, <2>1, <3>2, <3>3, <3>4
  <2>4. ASSUME phase = "run" /\ ~client.rejoins, NEW p \in client.assigned PROVE d[p] <= Frontier(p)
    <3>1. t[p] < Frontier(p)  BY <1>0, <2>4 DEF KafkaOrdered, t
    <3>2. Frontier(p) \in Nat  BY <1>0, KafkaTypes DEF Frontier
    <3>3. t[p] # -1 \/ d[p] = c[p]  BY <1>2, <1>3
    <3>4. QED  BY <1>2, <1>3, <2>1, <2>4, <3>1, <3>2, <3>3
  <2>5. QED  BY <2>2, <2>3, <2>4
<1>12. K!Settled \subseteq K!Settled'
  <2> SUFFICES ASSUME client.strategy # "AlwaysEarliest", NEW m \in KafkaMsgs, m[2] < c[m[1]]
               PROVE  m[2] < d[m[1]]
    BY <1>1, <1>6 DEF K!Settled, K!Rewinds, c
  <2>1. m[1] \in Partitions /\ m[2] \in Nat  BY KafkaMessages
  <2>2. c[m[1]] <= d[m[1]]
    <3>1. CASE m[1] \in client.assigned /\ t[m[1]] # -1
      <4>1. c[m[1]] <= t[m[1]] + 1  BY <1>0, <1>1, <3>1 DEF KafkaPosition, c, t
      <4>2. QED  BY <1>3, <3>1, <4>1
    <3>2. CASE d[m[1]] = c[m[1]]  BY <1>2, <2>1, <3>2
    <3>3. QED  BY <1>3, <2>1, <3>1, <3>2
  <2>3. QED  BY <1>2, <1>4, <2>1, <2>2
<1>13. QED  BY <1>8, <1>9, <1>10, <1>11, <1>12 DEF KafkaInv, KafkaAnswered

\* Joining the group: consumption starts at what is committed, and no copy of
\* an older epoch counts any more.
LEMMA KafkaJoinInv == ASSUME KafkaInv, K!Join PROVE KafkaInv' /\ K!Settled \subseteq K!Settled'
<1>0. KafkaTyped /\ KafkaAnswered /\ KafkaOrdered  BY DEF KafkaInv
<1> DEFINE n == [p \in Partitions |-> IF p \in broker.mine THEN K!StartsAt(p) ELSE client.next[p]]
           t == K!NoOffsets(broker.mine)
<1>1. /\ client.gen # broker.gen /\ client.batch = <<>> /\ phase # "end"
      /\ client' = [client EXCEPT !.gen = broker.gen, !.epoch = @ + 1, !.rejoins = FALSE,
                      !.next = n, !.assigned = broker.mine, !.offsets = t]
      /\ UNCHANGED <<broker, held, outcome, phase, faults>>
  BY <1>0, KafkaTypes DEF K!Join, K!NoBatch
<1>2. /\ broker.committed \in [Partitions -> Nat] /\ broker.mine \in SUBSET Partitions
      /\ broker.gen \in Nat /\ client.gen \in Nat /\ client.epoch \in Nat
      /\ client.next \in [Partitions -> Nat] /\ \A p \in Partitions : LogEnd[p] \in Nat
  BY <1>0, KafkaTypes, KafkaMessages
<1>3. \A p \in broker.mine : n[p] \in {0, broker.committed[p]} /\ n[p] \in Nat
      /\ (client.strategy # "AlwaysEarliest" => n[p] = broker.committed[p])
  BY <1>2 DEF K!StartsAt
<1>4. n \in [Partitions -> Nat]
  <2>1. \A p \in Partitions : n[p] \in Nat  BY <1>2, <1>3
  <2>2. QED  BY <2>1
<1>5. t \in [broker.mine -> Nat \cup {-1}] /\ \A p \in broker.mine : t[p] = -1
  BY DEF K!NoOffsets, K!NoOffset
<1>6. t \in KafkaOffsets  BY <1>2, <1>5 DEF KafkaOffsets
<1>6a. DOMAIN t = broker.mine  BY <1>5
<1> HIDE DEF n, t
<1>7. /\ client' \in KafkaClient /\ client'.epoch = client.epoch + 1 /\ client'.gen = broker.gen
      /\ client'.assigned = broker.mine /\ client'.offsets = t /\ client'.next = n
      /\ client'.strategy = client.strategy /\ client'.batch = <<>> /\ client'.rejoins = FALSE
  <2> DEFINE e == client.epoch + 1
  <2>1. e \in Nat  BY <1>2
  <2>2. client.strategy \in Strategies  BY <1>0, KafkaTypes
  <2>3. client' = [strategy |-> client.strategy, epoch |-> e, gen |-> broker.gen,
                   assigned |-> broker.mine, offsets |-> t, next |-> n, batch |-> <<>>,
                   rejoins |-> FALSE]
    BY <1>0, <1>1, KafkaTypes
  <2> HIDE DEF e
  <2>4. client' \in KafkaClient  BY <1>2, <1>4, <1>6, <2>1, <2>2, <2>3 DEF KafkaClient
  <2>5. client'.epoch = e  BY <2>3
  <2>6. QED  BY <2>3, <2>4, <2>5 DEF e
<1>8. KafkaTyped'
  <2>1. client.epoch + 1 <= broker.gen  BY <1>0, <1>1, <1>2 DEF KafkaTyped
  <2>2. broker.gen <= broker.gen  BY <1>2
  <2>3. QED  BY <1>0, <1>1, <1>6a, <1>7, <2>1, <2>2 DEF KafkaTyped, SharedInv
<1>9. KafkaBatch'  BY <1>7 DEF KafkaBatch
<1>10. Now' = {} /\ \A p : OfNow(p)' = {}
  <2>1. \A i \in DOMAIN held : held[i].epoch \in Nat /\ held[i].epoch <= client.epoch
    BY <1>0, KafkaTypes DEF KafkaOrdered
  <2>2. \A i \in DOMAIN held : held[i].epoch # client.epoch + 1  BY <1>2, <2>1
  <2>3. Now' = {}  BY <1>1, <1>7, <2>2 DEF Now
  <2>4. QED  BY <2>3 DEF OfNow
<1>11. \A p : Frontier(p)' = n[p]  BY <1>7 DEF Frontier
<1>12. K!Answered' = K!Answered  BY <1>1 DEF K!Answered
<1>13. FrontierAnswered'
  <2> SUFFICES ASSUME NEW p \in broker.mine, NEW o \in 0..(LogEnd[p] - 1), o < n[p]
               PROVE  <<p, o>> \in K!Answered
    BY <1>7, <1>11, <1>12 DEF FrontierAnswered
  <2>1. p \in Partitions /\ broker.committed[p] \in Nat /\ LogEnd[p] \in Nat  BY <1>2
  <2>2. o \in 0..(broker.committed[p] - 1)  BY <1>3, <2>1
  <2>3. QED  BY <1>0, <2>1, <2>2 DEF KafkaAnswered, CommittedAnswered
<1>14. CopiesAnswered' /\ TrackedAnswered' /\ CommittedAnswered'
  <2>1. CopiesAnswered'  BY <1>10 DEF CopiesAnswered
  <2>2. TrackedAnswered'  BY <1>5, <1>7 DEF TrackedAnswered
  <2>3. CommittedAnswered'  BY Zenon, <1>0, <1>1, <1>12 DEF KafkaAnswered, CommittedAnswered
  <2>4. QED  BY <2>1, <2>2, <2>3
<1>15. KafkaOrdered'
  <2>1. \A i \in DOMAIN held : held[i].epoch <= client.epoch + 1
    <3>1. \A i \in DOMAIN held : held[i].epoch \in Nat /\ held[i].epoch <= client.epoch
      BY <1>0, KafkaTypes DEF KafkaOrdered
    <3>2. QED  BY <1>2, <3>1
  <2>2. \A p \in broker.mine : t[p] < LogEnd[p] /\ t[p] < n[p]  BY <1>2, <1>3, <1>5
  <2>3. QED  BY <1>1, <1>7, <1>10, <1>11, <2>1, <2>2 DEF KafkaOrdered
<1>16. KafkaPosition'
  <2>1. \A p \in broker.mine : client.strategy # "AlwaysEarliest" => broker.committed[p] <= n[p]
    BY <1>2, <1>3
  <2>2. QED  BY <1>1, <1>5, <1>7, <1>10, <1>11, <2>1 DEF KafkaPosition
<1>17. K!Settled \subseteq K!Settled'  BY <1>1, <1>7 DEF K!Settled, K!Rewinds
<1>18. QED  BY <1>8, <1>9, <1>13, <1>14, <1>15, <1>16, <1>17 DEF KafkaInv, KafkaAnswered

\* The consumer goes on to the next message of its batch.
LEMMA KafkaMoves ==
    ASSUME KafkaInv, client.batch # <<>>, client.batch[2] <= client.batch[3], phase = "run",
           client' = [client EXCEPT !.batch[2] = @ + 1], phase' = phase
    PROVE  /\ client' \in KafkaClient /\ client'.epoch = client.epoch /\ client'.gen = client.gen
           /\ client'.assigned = client.assigned /\ client'.offsets = client.offsets
           /\ client'.strategy = client.strategy /\ client'.rejoins = client.rejoins
           /\ ~client.rejoins /\ KafkaBatch'
           /\ <<client.batch[1], client.batch[2]>> \in KafkaMsgs
           /\ client.batch[1] \in client.assigned
           /\ Frontier(client.batch[1]) = client.batch[2] /\ client.batch[2] \in Nat
           /\ client.batch[2] < LogEnd[client.batch[1]]
           /\ \A q \in client.assigned : q \in Partitions /\ Frontier(q) \in Nat
           /\ \A q : Frontier(q)' = IF q = client.batch[1] THEN Frontier(q) + 1 ELSE Frontier(q)
<1> DEFINE p == client.batch[1]
           o == client.batch[2]
           l == client.batch[3]
           b == <<p, o + 1, l>>
<1>0. KafkaTyped /\ KafkaBatch  BY DEF KafkaInv
<1>1. /\ client' = [client EXCEPT !.batch = b] /\ client' \in KafkaClient
      /\ client \in KafkaClient
  BY <1>0, KafkaBatchMoves DEF KafkaTyped
<1>2. /\ p \in Partitions /\ o \in Nat /\ l \in Nat /\ client.next[p] \in Nat /\ LogEnd[p] \in Nat
      /\ p \in client.assigned /\ ~client.rejoins /\ client.next[p] <= o /\ l < LogEnd[p] /\ o <= l
  BY <1>0, KafkaTypes, KafkaMessages DEF KafkaBatch
<1>3. b[1] = p /\ b[2] = o + 1 /\ b[3] = l /\ b # <<>>  OBVIOUS
<1>4. <<p, o>> \in KafkaMsgs  BY <1>2, KafkaMessages
<1>5. \A q \in client.assigned : q \in Partitions /\ Frontier(q) \in Nat
  BY <1>0, KafkaTypes DEF Frontier
<1>6. Frontier(p) = o  BY DEF Frontier
<1> HIDE DEF b
<1>7. /\ client'.epoch = client.epoch /\ client'.gen = client.gen
      /\ client'.assigned = client.assigned /\ client'.offsets = client.offsets
      /\ client'.strategy = client.strategy /\ client'.rejoins = client.rejoins
      /\ client'.next = client.next /\ client'.batch = b
  BY <1>1 DEF KafkaClient
<1>8. KafkaBatch'  BY <1>2, <1>3, <1>7 DEF KafkaBatch
<1>9. ASSUME NEW q PROVE Frontier(q)' = IF q = p THEN Frontier(q) + 1 ELSE Frontier(q)
  <2>1. client.batch # <<>> /\ client'.batch # <<>> /\ client'.batch[1] = p /\ client'.batch[2] = o + 1
    BY <1>3, <1>7
  <2> HIDE DEF p, o
  <2>2. CASE q = p
    <3>1. Frontier(q)' = o + 1  BY <2>1, <2>2 DEF Frontier
    <3>2. QED  BY <1>6, <2>2, <3>1
  <2>3. CASE q # p
    <3>1. Frontier(q)' = client.next[q]  BY <1>7, <2>1, <2>3 DEF Frontier
    <3>2. Frontier(q) = client.next[q]  BY <2>3 DEF Frontier, p
    <3>3. QED  BY <2>3, <3>1, <3>2
  <2>4. QED  BY <2>2, <2>3
<1>10. QED  BY <1>1, <1>2, <1>4, <1>5, <1>6, <1>7, <1>8, <1>9

\* A message that is no message is passed over.
LEMMA KafkaSkipInv == ASSUME KafkaInv, K!Skip PROVE KafkaInv' /\ K!Settled \subseteq K!Settled'
<1>0. KafkaTyped /\ KafkaAnswered /\ KafkaOrdered /\ KafkaPosition  BY DEF KafkaInv
<1> DEFINE p == client.batch[1]
           o == client.batch[2]
           ms == {<<p, o>>}
<1>1. /\ client.batch # <<>> /\ o <= client.batch[3] /\ phase = "run"
      /\ client' = [client EXCEPT !.batch[2] = @ + 1] /\ outcome' = K!Became("rejected", ms)
      /\ UNCHANGED <<broker, held, phase, faults>>
  BY DEF K!Skip, K!InBatch, K!Current, K!NoBatch
<1>2. /\ client' \in KafkaClient /\ client'.epoch = client.epoch /\ client'.gen = client.gen
      /\ client'.assigned = client.assigned /\ client'.offsets = client.offsets
      /\ client'.strategy = client.strategy /\ client'.rejoins = client.rejoins
      /\ ~client.rejoins /\ KafkaBatch' /\ <<p, o>> \in KafkaMsgs /\ p \in client.assigned
      /\ Frontier(p) = o /\ o \in Nat
      /\ \A q \in client.assigned : q \in Partitions /\ Frontier(q) \in Nat
      /\ \A q : Frontier(q)' = IF q = p THEN Frontier(q) + 1 ELSE Frontier(q)
  BY <1>1, KafkaMoves
<1>3. ms \in SUBSET KafkaMsgs /\ "rejected" \in Outcomes /\ <<p, o>> \in ms  BY <1>2 DEF Outcomes
<1> HIDE DEF ms
<1>4. outcome' \in [KafkaMsgs -> SUBSET Outcomes] /\ K!Answered' = K!Answered \cup ms
  BY <1>0, <1>1, <1>3, KafkaBecame
<1>5. K!Answered \subseteq K!Answered' /\ <<p, o>> \in K!Answered'  BY <1>3, <1>4
<1> HIDE DEF p, o
<1>6. KafkaTyped'  BY <1>0, <1>1, <1>2, <1>4 DEF KafkaTyped, SharedInv
<1>7. Now' = Now /\ \A q : OfNow(q)' = OfNow(q)  BY <1>1, <1>2 DEF Now, OfNow
<1>8. FrontierAnswered'
  <2> SUFFICES ASSUME NEW q \in client.assigned, NEW n \in 0..(LogEnd[q] - 1), n < Frontier(q)'
               PROVE  <<q, n>> \in K!Answered' \/ \E i \in OfNow(q) : held[i].m[2] = n
    BY <1>1, <1>2, <1>7 DEF FrontierAnswered
  <2>1. CASE q = p /\ n = o  BY <1>5, <2>1
  <2>2. CASE ~(q = p /\ n = o)
    <3>1. n < Frontier(q)  BY <1>2, <2>2
    <3>2. QED  BY <1>0, <1>5, <3>1 DEF KafkaAnswered, FrontierAnswered
  <2>3. QED  BY <2>1, <2>2
<1>9. CopiesAnswered' /\ TrackedAnswered' /\ CommittedAnswered'
  <2>1. CopiesAnswered'  BY <1>0, <1>1, <1>5, <1>7 DEF KafkaAnswered, CopiesAnswered
  <2>2. TrackedAnswered'  BY Zenon, <1>0, <1>2, <1>5 DEF KafkaAnswered, TrackedAnswered
  <2>3. CommittedAnswered'  BY Zenon, <1>0, <1>1, <1>5 DEF KafkaAnswered, CommittedAnswered
  <2>4. QED  BY <2>1, <2>2, <2>3
<1>10. KafkaOrdered'
  <2>1. \A i \in Now : held[i].m[1] \in client.assigned /\ held[i].m[2] < Frontier(held[i].m[1])
                       /\ held[i].m[2] \in Nat
    BY <1>0, <1>1, <1>2, KafkaTypes DEF KafkaOrdered, Now
  <2>2. ASSUME NEW i \in Now, NEW q \in client.assigned, held[i].m[1] = q
        PROVE  held[i].m[2] < Frontier(q)'
    <3>1. held[i].m[2] < Frontier(q) /\ Frontier(q) \in Nat /\ held[i].m[2] \in Nat
      BY <1>2, <2>1, <2>2
    <3>2. QED  BY <1>2, <3>1
  <2>3. \A q \in client.assigned : client.offsets[q] < Frontier(q)'
    <3>1. \A q \in client.assigned : client.offsets[q] < Frontier(q) /\ client.offsets[q] \in Int
      BY <1>0, <1>1, <1>2, KafkaTypes DEF KafkaOrdered
    <3>2. QED  BY <1>2, <3>1
  <2>4. QED  BY <1>0, <1>1, <1>2, <1>7, <2>2, <2>3 DEF KafkaOrdered
<1>11. KafkaPosition'
  <2>1. client.strategy # "AlwaysEarliest" /\ client.gen = broker.gen =>
           \A q \in client.assigned : broker.committed[q] <= Frontier(q)'
    <3>1. \A q \in client.assigned : broker.committed[q] \in Nat  BY <1>0, <1>2, KafkaTypes
    <3>2. client.strategy # "AlwaysEarliest" /\ client.gen = broker.gen =>
             \A q \in client.assigned : broker.committed[q] <= Frontier(q)
      BY <1>0, <1>1, <1>2 DEF KafkaPosition
    <3>3. QED  BY <1>2, <3>1, <3>2
  <2>2. QED  BY <1>0, <1>1, <1>2, <1>7, <2>1 DEF KafkaPosition
<1>12. K!Settled \subseteq K!Settled'  BY <1>1, <1>2 DEF K!Settled, K!Rewinds
<1>13. QED  BY <1>2, <1>6, <1>8, <1>9, <1>10, <1>11, <1>12 DEF KafkaInv, KafkaAnswered

\* A message is handed out, with everything before it answered or in the
\* application.
LEMMA KafkaYieldInv == ASSUME KafkaInv, K!Yield PROVE KafkaInv' /\ K!Settled \subseteq K!Settled'
<1>0. KafkaTyped /\ KafkaAnswered /\ KafkaOrdered /\ KafkaPosition  BY DEF KafkaInv
<1> DEFINE p == client.batch[1]
           o == client.batch[2]
           copy == [m |-> <<p, o>>, epoch |-> client.epoch]
           top == Len(held) + 1
<1>1. /\ client.batch # <<>> /\ o <= client.batch[3] /\ phase = "run"
      /\ client' = [client EXCEPT !.batch[2] = @ + 1]
      /\ Len(held) < MaxHeld /\ held' = Append(held, copy)
      /\ UNCHANGED <<broker, outcome, phase, faults>>
  BY DEF K!Yield, K!InBatch, K!Current, K!NoBatch, K!Hand
<1>2. /\ client' \in KafkaClient /\ client'.epoch = client.epoch /\ client'.gen = client.gen
      /\ client'.assigned = client.assigned /\ client'.offsets = client.offsets
      /\ client'.strategy = client.strategy /\ client'.rejoins = client.rejoins
      /\ ~client.rejoins /\ KafkaBatch' /\ <<p, o>> \in KafkaMsgs /\ p \in client.assigned
      /\ Frontier(p) = o /\ o \in Nat /\ o < LogEnd[p]
      /\ \A q \in client.assigned : q \in Partitions /\ Frontier(q) \in Nat
      /\ \A q : Frontier(q)' = IF q = p THEN Frontier(q) + 1 ELSE Frontier(q)
  BY <1>1, KafkaMoves
<1>3. /\ copy \in KafkaCopy /\ copy.m[1] = p /\ copy.m[2] = o /\ copy.epoch = client.epoch
      /\ copy.m = <<p, o>>
  BY <1>0, <1>2, KafkaTypes DEF KafkaCopy
<1> HIDE DEF p, o, copy
<1>4. /\ held \in Seq(KafkaCopy) /\ held' \in Seq(KafkaCopy) /\ Len(held') = top /\ top \in Nat
      /\ top <= MaxHeld /\ DOMAIN held' = DOMAIN held \cup {top} /\ top \notin DOMAIN held
      /\ held'[top] = copy /\ \A i \in DOMAIN held : held'[i] = held[i] /\ i < top /\ i \in Nat
  <2>1. held \in Seq(KafkaCopy) /\ MaxHeld \in Nat  BY <1>0, KafkaTypes, SourcesAssumption
  <2>2. QED  BY <1>1, <1>3, <2>1
<1> HIDE DEF top
<1>5. KafkaTyped'  BY <1>0, <1>1, <1>2, <1>4 DEF KafkaTyped, SharedInv
<1>6. /\ Now' = Now \cup {top} /\ Now \subseteq DOMAIN held
      /\ \A q : OfNow(q)' = OfNow(q) \cup IF q = p THEN {top} ELSE {}
  <2>1. Now' = Now \cup {top} /\ Now \subseteq DOMAIN held  BY <1>2, <1>3, <1>4 DEF Now
  <2>2. QED  BY <1>3, <1>4, <2>1 DEF OfNow
<1>7. K!Answered' = K!Answered  BY <1>1 DEF K!Answered
<1>8. FrontierAnswered'
  <2> SUFFICES ASSUME NEW q \in client.assigned, NEW n \in 0..(LogEnd[q] - 1), n < Frontier(q)'
               PROVE  <<q, n>> \in K!Answered \/ \E i \in OfNow(q)' : held'[i].m[2] = n
    <3>1. client'.assigned = client.assigned  BY <1>2
    <3>2. QED  BY <1>7, <3>1 DEF FrontierAnswered
  <2>1. CASE q = p /\ n = o
    <3>1. top \in OfNow(q)'  BY <1>6, <2>1
    <3>2. QED  BY <1>3, <1>4, <2>1, <3>1
  <2>2. CASE ~(q = p /\ n = o)
    <3>1. n < Frontier(q)  BY <1>2, <2>2
    <3>2. CASE <<q, n>> \in K!Answered  BY <3>2
    <3>3. CASE \E i \in OfNow(q) : held[i].m[2] = n
      <4>1. PICK i \in OfNow(q) : held[i].m[2] = n  BY <3>3
      <4>2. i \in DOMAIN held  BY <1>6 DEF OfNow
      <4>3. QED  BY <1>4, <1>6, <4>1, <4>2
    <3>4. QED  BY <1>0, <3>1, <3>2, <3>3 DEF KafkaAnswered, FrontierAnswered
  <2>3. QED  BY <2>1, <2>2
<1>9. CopiesAnswered'
  <2> SUFFICES ASSUME NEW i \in Now \cup {top}, NEW q, NEW c, q = held'[i].m[1], c = held'[i].m[2], NEW n \in 0..(c - 1)
               PROVE  <<q, n>> \in K!Answered \/ \E j \in OfNow(q)' : j < i /\ held'[j].m[2] = n
    BY <1>6, <1>7 DEF CopiesAnswered
  <2>1. \A j \in OfNow(q) : j \in OfNow(q)' /\ j \in DOMAIN held /\ held'[j] = held[j] /\ j < top
    BY <1>4, <1>6 DEF OfNow
  <2>2. CASE i = top
    <3>1. q = p /\ c = o  BY <1>3, <1>4, <2>2
    <3>2. p \in client.assigned /\ n \in 0..(LogEnd[p] - 1) /\ n < Frontier(p)
      <4>1. LogEnd[p] \in Nat  BY <1>2, KafkaMessages
      <4>2. QED  BY <1>2, <3>1, <4>1
    <3>3. <<p, n>> \in K!Answered \/ \E j \in OfNow(p) : held[j].m[2] = n
      BY <1>0, <3>2 DEF KafkaAnswered, FrontierAnswered
    <3>4. QED  BY <2>1, <2>2, <3>1, <3>3
  <2>3. CASE i \in Now
    <3>1. i \in DOMAIN held /\ q = held[i].m[1] /\ c = held[i].m[2]  BY <1>4, <1>6, <2>3
    <3>2. <<q, n>> \in K!Answered \/ \E j \in OfNow(q) : j < i /\ held[j].m[2] = n
      BY <1>0, <2>3, <3>1 DEF KafkaAnswered, CopiesAnswered
    <3>3. QED  BY <2>1, <3>2
  <2>4. QED  BY <2>2, <2>3
<1>10. TrackedAnswered' /\ CommittedAnswered'
  BY <1>0, <1>1, <1>2, <1>7 DEF KafkaAnswered, TrackedAnswered, CommittedAnswered
<1>11. \A i \in Now : /\ held'[i] = held[i] /\ i \in DOMAIN held /\ i < top /\ i \in Nat
                      /\ held[i].m[1] \in client.assigned /\ held[i].m[2] \in Nat
                      /\ held[i].m[2] < Frontier(held[i].m[1])
  BY <1>0, <1>1, <1>2, <1>4, KafkaTypes DEF KafkaOrdered, Now
<1>12. \A q \in client.assigned : client.offsets[q] < Frontier(q) /\ client.offsets[q] \in Int
  BY <1>0, <1>1, <1>2, KafkaTypes DEF KafkaOrdered
<1>13. KafkaOrdered'
  <2>1. \A i \in DOMAIN held' : held'[i].epoch <= client.epoch
    <3>1. client.epoch \in Nat  BY <1>0, KafkaTypes
    <3>2. QED  BY <1>0, <1>3, <1>4, <3>1 DEF KafkaOrdered
  <2>2. \A i \in Now \cup {top} : held'[i].m[1] \in client.assigned
    BY <1>2, <1>3, <1>4, <1>11
  <2>3. \A i, j \in Now \cup {top} : i < j /\ held'[i].m[1] = held'[j].m[1] => held'[i].m[2] < held'[j].m[2]
    <3> SUFFICES ASSUME NEW i \in Now \cup {top}, NEW j \in Now \cup {top}, i < j,
                        held'[i].m[1] = held'[j].m[1]
                 PROVE  held'[i].m[2] < held'[j].m[2]
      OBVIOUS
    <3>1. i \in Now  BY <1>4, <1>11
    <3>2. CASE j \in Now  BY <1>0, <1>11, <3>1, <3>2 DEF KafkaOrdered
    <3>3. CASE j = top  BY <1>2, <1>3, <1>4, <1>11, <3>1, <3>3
    <3>4. QED  BY <3>2, <3>3
  <2>4. \A i \in Now \cup {top} : client.offsets[held'[i].m[1]] < held'[i].m[2]
    <3> SUFFICES ASSUME NEW i \in Now \cup {top} PROVE client.offsets[held'[i].m[1]] < held'[i].m[2]
      OBVIOUS
    <3>1. CASE i \in Now  BY <1>0, <1>11, <3>1 DEF KafkaOrdered
    <3>2. CASE i = top  BY <1>2, <1>3, <1>4, <1>12, <3>2
    <3>3. QED  BY <3>1, <3>2
  <2>5. ASSUME NEW i \in Now \cup {top}, NEW q \in client.assigned, held'[i].m[1] = q
        PROVE  held'[i].m[2] < Frontier(q)'
    <3>1. CASE i \in Now
      <4>1. q \in client.assigned /\ held[i].m[2] < Frontier(q) /\ held[i].m[2] \in Nat /\ held'[i] = held[i]
        BY <1>11, <2>5, <3>1
      <4>2. QED  BY <1>2, <4>1
    <3>2. CASE i = top  BY <1>2, <1>3, <1>4, <2>5, <3>2
    <3>3. QED  BY <3>1, <3>2
  <2>6. \A q \in client.assigned : client.offsets[q] < Frontier(q)'  BY <1>2, <1>12
  <2>7. \A q \in client.assigned : client.offsets[q] < LogEnd[q]  BY <1>0 DEF KafkaOrdered
  <2>8. QED  BY <1>2, <1>6, <2>1, <2>2, <2>3, <2>4, <2>5, <2>6, <2>7 DEF KafkaOrdered
<1>14. KafkaPosition'
  <2> SUFFICES ASSUME client.strategy # "AlwaysEarliest", client.gen = broker.gen
               PROVE  /\ \A i \in Now \cup {top} : broker.committed[held'[i].m[1]] <= held'[i].m[2]
                      /\ \A q \in client.assigned :
                            client.offsets[q] # -1 => broker.committed[q] <= client.offsets[q] + 1
                      /\ \A q \in client.assigned : broker.committed[q] <= Frontier(q)'
    BY <1>1, <1>2, <1>6 DEF KafkaPosition
  <2>1. \A q \in client.assigned : broker.committed[q] <= Frontier(q) /\ broker.committed[q] \in Nat
    BY <1>0, <1>1, <1>2, KafkaTypes DEF KafkaPosition
  <2>2. \A i \in Now : broker.committed[held[i].m[1]] <= held[i].m[2]  BY <1>0 DEF KafkaPosition
  <2>3. \A i \in Now \cup {top} : broker.committed[held'[i].m[1]] <= held'[i].m[2]
    BY <1>2, <1>3, <1>4, <1>11, <2>1, <2>2
  <2>4. \A q \in client.assigned : broker.committed[q] <= Frontier(q)'  BY <1>2, <2>1
  <2>5. QED  BY <1>0, <2>3, <2>4 DEF KafkaPosition
<1>15. K!Settled \subseteq K!Settled'  BY <1>1, <1>2 DEF K!Settled, K!Rewinds
<1>16. QED  BY <1>2, <1>5, <1>8, <1>9, <1>10, <1>13, <1>14, <1>15 DEF KafkaInv, KafkaAnswered

\* A copy leaves the application, answered if it is of this epoch.  When it is
\* tracked, it is the first of its partition.
LEMMA KafkaDrops ==
    ASSUME KafkaInv, NEW i \in DOMAIN held, held' = RemoveAt(held, i), UNCHANGED <<broker, phase>>,
           client' \in KafkaClient, client'.epoch = client.epoch, client'.gen = client.gen,
           client'.assigned = client.assigned, client'.strategy = client.strategy,
           client'.next = client.next, client'.batch = client.batch,
           client'.rejoins = client.rejoins, DOMAIN client'.offsets = DOMAIN client.offsets,
           faults' \in 0..MaxFaults, faults <= faults',
           outcome' \in [KafkaMsgs -> SUBSET Outcomes], K!Answered \subseteq K!Answered',
           i \in Now => held[i].m \in K!Answered',
           \A q \in client.assigned :
              \/ client'.offsets[q] = client.offsets[q]
              \/ /\ i \in Now /\ held[i].m[1] = q /\ client'.offsets[q] = held[i].m[2]
                 /\ \A j \in 1..(i - 1) : held[j].m[1] # q
    PROVE  KafkaInv' /\ K!Settled \subseteq K!Settled'
<1>0. KafkaTyped /\ KafkaBatch /\ KafkaAnswered /\ KafkaOrdered /\ KafkaPosition  BY DEF KafkaInv
<1> DEFINE f(j) == IF j < i THEN j ELSE j + 1
           t == client'.offsets
<1>1. /\ held \in Seq(KafkaCopy) /\ Len(held) <= MaxHeld /\ MaxHeld \in Nat
      /\ DOMAIN held = 1..Len(held) /\ i \in 1..Len(held) /\ Len(held) \in Nat
  <2>1. held \in Seq(KafkaCopy) /\ Len(held) <= MaxHeld  BY <1>0 DEF KafkaTyped, SharedInv
  <2>2. MaxHeld \in Nat  BY SourcesAssumption
  <2>3. QED  BY <2>1, <2>2
<1>2. /\ held' \in Seq(KafkaCopy) /\ Len(held') = Len(held) - 1 /\ DOMAIN held' = 1..(Len(held) - 1)
      /\ \A j \in 1..(Len(held) - 1) : held'[j] = held[f(j)]
  <2>1. /\ RemoveAt(held, i) \in Seq(KafkaCopy) /\ Len(RemoveAt(held, i)) = Len(held) - 1
        /\ \A j \in 1..(Len(held) - 1) : RemoveAt(held, i)[j] = held[f(j)]
    <3>1. \A s \in Seq(KafkaCopy) : \A h \in 1..Len(s) :
            /\ RemoveAt(s, h) \in Seq(KafkaCopy) /\ Len(RemoveAt(s, h)) = Len(s) - 1
            /\ \A j \in 1..(Len(s) - 1) : RemoveAt(s, h)[j] = s[IF j < h THEN j ELSE j + 1]
      BY RemoveAtProperties
    <3>2. QED  BY ZenonT(30), <1>1, <3>1
  <2> HIDE DEF f
  <2>2. QED  BY SMTT(30), <1>1, <2>1
<1>3. /\ \A j \in DOMAIN held' : f(j) \in DOMAIN held /\ f(j) # i /\ held'[j] = held[f(j)]
      /\ \A j, k \in DOMAIN held' : j < k <=> f(j) < f(k)
      /\ \A h \in DOMAIN held \ {i} : \E j \in DOMAIN held' : f(j) = h
      /\ \A j \in DOMAIN held' : j \in Nat /\ f(j) \in Nat
  <2>1. \A j \in DOMAIN held' : f(j) \in DOMAIN held /\ f(j) # i /\ held'[j] = held[f(j)]
    BY <1>1, <1>2
  <2>2. \A j, k \in DOMAIN held' : j < k <=> f(j) < f(k)  BY <1>1, <1>2
  <2>3. ASSUME NEW h \in DOMAIN held \ {i} PROVE \E j \in DOMAIN held' : f(j) = h
    <3>1. CASE h < i  BY <1>1, <1>2, <3>1
    <3>2. CASE ~(h < i)
      <4>1. h - 1 \in DOMAIN held' /\ f(h - 1) = h  BY <1>1, <1>2, <3>2
      <4>2. QED  BY <4>1
    <3>3. QED  BY <3>1, <3>2
  <2>4. QED  BY <1>1, <1>2, <2>1, <2>2, <2>3
<1> HIDE DEF f
<1>4. faults \in Nat /\ faults' \in Nat /\ broker.gen \in Nat  BY <1>0, KafkaTypes DEF KafkaTyped, SharedInv
<1>5. KafkaTyped'
  <2>1. Len(held') <= MaxHeld  BY <1>1, <1>2
  <2>2. broker.gen <= faults' + 1  BY <1>0, <1>4 DEF KafkaTyped
  <2>3. QED  BY <1>0, <1>2, <2>1, <2>2 DEF KafkaTyped, SharedInv
<1>6. KafkaBatch'  BY <1>0 DEF KafkaBatch
<1>7. \A q : Frontier(q)' = Frontier(q)  BY DEF Frontier
<1>8. /\ \A j \in Now' : j \in DOMAIN held' /\ f(j) \in Now /\ held'[j] = held[f(j)]
      /\ \A h \in Now \ {i} : \E j \in Now' : f(j) = h
      /\ \A q : \A j \in OfNow(q)' : f(j) \in OfNow(q)
      /\ \A q : \A h \in OfNow(q) \ {i} : \E j \in OfNow(q)' : f(j) = h /\ held'[j] = held[h]
  <2>1. \A j \in Now' : j \in DOMAIN held' /\ f(j) \in Now /\ held'[j] = held[f(j)]
    BY <1>3 DEF Now
  <2>2. \A h \in Now \ {i} : \E j \in Now' : f(j) = h  BY <1>3 DEF Now
  <2>3. \A q : \A j \in OfNow(q)' : f(j) \in OfNow(q)  BY <2>1 DEF OfNow
  <2>4. \A q : \A h \in OfNow(q) \ {i} : \E j \in OfNow(q)' : f(j) = h /\ held'[j] = held[h]
    <3> SUFFICES ASSUME NEW q, NEW h \in OfNow(q) \ {i}
                 PROVE  \E j \in OfNow(q)' : f(j) = h /\ held'[j] = held[h]
      OBVIOUS
    <3>1. PICK j \in Now' : f(j) = h  BY <2>2 DEF OfNow
    <3>2. held'[j] = held[h]  BY <2>1, <3>1
    <3>3. j \in OfNow(q)'  BY <3>2 DEF OfNow
    <3>4. QED  BY <3>1, <3>2, <3>3
  <2>5. QED  BY <2>1, <2>2, <2>3, <2>4
<1>9. \A j \in Now : /\ j \in DOMAIN held /\ j \in Nat /\ held[j].m[1] \in client.assigned
                     /\ held[j].m[2] \in Nat /\ held[j].m[2] < LogEnd[held[j].m[1]]
                     /\ held[j].m = <<held[j].m[1], held[j].m[2]>>
  <2>1. \A j \in Now : j \in DOMAIN held /\ held[j].m[1] \in client.assigned
    BY <1>0 DEF KafkaOrdered, Now
  <2>2. QED  BY <1>0, <2>1, KafkaTypes
<1>10. ASSUME NEW q, NEW n, NEW h \in OfNow(q), held[h].m[2] = n
       PROVE  <<q, n>> \in K!Answered' \/ \E j \in OfNow(q)' : f(j) = h /\ held'[j].m[2] = n
  <2>1. CASE h = i
    <3>1. i \in Now /\ held[i].m[1] = q  BY <2>1 DEF OfNow
    <3>2. held[i].m = <<q, n>>  BY <1>9, <1>10, <2>1, <3>1
    <3>3. QED  BY <3>1, <3>2
  <2>2. CASE h # i  BY <1>8, <1>10, <2>2
  <2>3. QED  BY <2>1, <2>2
<1>11. FrontierAnswered'
  <2> SUFFICES ASSUME NEW q \in client.assigned, NEW n \in 0..(LogEnd[q] - 1), n < Frontier(q)
               PROVE  <<q, n>> \in K!Answered' \/ \E j \in OfNow(q)' : held'[j].m[2] = n
    BY <1>7 DEF FrontierAnswered
  <2>1. <<q, n>> \in K!Answered \/ \E h \in OfNow(q) : held[h].m[2] = n
    BY <1>0 DEF KafkaAnswered, FrontierAnswered
  <2>2. CASE <<q, n>> \in K!Answered  BY <2>2
  <2>3. CASE \E h \in OfNow(q) : held[h].m[2] = n  BY <1>10, <2>3
  <2>4. QED  BY <2>1, <2>2, <2>3
<1>12. CopiesAnswered'
  <2> SUFFICES ASSUME NEW k \in Now', NEW q, NEW c, q = held'[k].m[1], c = held'[k].m[2], NEW n \in 0..(c - 1)
               PROVE  <<q, n>> \in K!Answered' \/ \E j \in OfNow(q)' : j < k /\ held'[j].m[2] = n
    BY DEF CopiesAnswered
  <2>1. f(k) \in Now /\ q = held[f(k)].m[1] /\ c = held[f(k)].m[2] /\ k \in DOMAIN held'  BY <1>8
  <2>2. <<q, n>> \in K!Answered \/ \E h \in OfNow(q) : h < f(k) /\ held[h].m[2] = n
    BY <1>0, <2>1 DEF KafkaAnswered, CopiesAnswered
  <2>3. CASE <<q, n>> \in K!Answered  BY <2>3
  <2>4. CASE \E h \in OfNow(q) : h < f(k) /\ held[h].m[2] = n
    <3>1. PICK h \in OfNow(q) : h < f(k) /\ held[h].m[2] = n  BY <2>4
    <3>2. CASE \E j \in OfNow(q)' : f(j) = h /\ held'[j].m[2] = n
      <4>1. PICK j \in OfNow(q)' : f(j) = h /\ held'[j].m[2] = n  BY <3>2
      <4>2. j \in Now'  BY <4>1 DEF OfNow
      <4>3. j < k  BY <1>3, <1>8, <2>1, <3>1, <4>1, <4>2
      <4>4. QED  BY <4>1, <4>3
    <3>3. QED  BY <1>10, <3>1, <3>2
  <2>5. QED  BY <2>2, <2>3, <2>4
<1>13. TrackedAnswered'
  <2> SUFFICES ASSUME NEW q \in client.assigned, NEW n \in 0..t[q] PROVE <<q, n>> \in K!Answered'
    BY Zenon DEF TrackedAnswered
  <2>1. CASE t[q] = client.offsets[q]  BY <1>0, <2>1 DEF KafkaAnswered, TrackedAnswered
  <2>2. CASE /\ i \in Now /\ held[i].m[1] = q /\ t[q] = held[i].m[2]
             /\ \A j \in 1..(i - 1) : held[j].m[1] # q
    <3>1. CASE n = held[i].m[2]  BY <1>9, <2>2, <3>1
    <3>2. CASE n # held[i].m[2]
      <4>1. n \in 0..(held[i].m[2] - 1)  BY <1>9, <2>2, <3>2
      <4>2. <<q, n>> \in K!Answered \/ \E j \in OfNow(q) : j < i /\ held[j].m[2] = n
        BY <1>0, <2>2, <4>1 DEF KafkaAnswered, CopiesAnswered
      <4>3. \A j \in OfNow(q) : ~(j < i)
        <5>1. \A j \in OfNow(q) : j \in 1..Len(held) /\ held[j].m[1] = q  BY <1>1 DEF OfNow, Now
        <5>2. QED  BY <1>1, <2>2, <5>1
      <4>4. QED  BY <4>2, <4>3
    <3>3. QED  BY <3>1, <3>2
  <2>3. QED  BY <2>1, <2>2
<1>14. CommittedAnswered'  BY Zenon, <1>0 DEF KafkaAnswered, CommittedAnswered
<1>15. KafkaOrdered'
  <2>1. \A j \in DOMAIN held' : held'[j].epoch <= client.epoch  BY <1>0, <1>3 DEF KafkaOrdered
  <2>2. \A j \in Now' : held'[j].m[1] \in client.assigned  BY <1>8, <1>9
  <2>3. \A j, k \in Now' : j < k /\ held'[j].m[1] = held'[k].m[1] => held'[j].m[2] < held'[k].m[2]
    <3> SUFFICES ASSUME NEW j \in Now', NEW k \in Now', j < k, held'[j].m[1] = held'[k].m[1]
                 PROVE  held'[j].m[2] < held'[k].m[2]
      OBVIOUS
    <3>1. f(j) < f(k) /\ f(j) \in Now /\ f(k) \in Now /\ held'[j] = held[f(j)] /\ held'[k] = held[f(k)]
      BY <1>3, <1>8
    <3>2. QED  BY <1>0, <3>1 DEF KafkaOrdered
  <2>4. ASSUME NEW j \in Now', NEW q, q = held'[j].m[1] PROVE t[q] < held'[j].m[2]
    <3>1. f(j) \in Now /\ f(j) # i /\ held'[j] = held[f(j)] /\ q \in client.assigned /\ f(j) \in DOMAIN held
      BY <1>3, <1>8, <1>9, <2>4
    <3>2. CASE t[q] = client.offsets[q]  BY <1>0, <2>4, <3>1, <3>2 DEF KafkaOrdered
    <3>3. CASE /\ i \in Now /\ held[i].m[1] = q /\ t[q] = held[i].m[2]
               /\ \A h \in 1..(i - 1) : held[h].m[1] # q
      <4>1. i < f(j)  BY <1>1, <2>4, <3>1, <3>3
      <4>2. QED  BY <1>0, <2>4, <3>1, <3>3, <4>1 DEF KafkaOrdered
    <3>4. QED  BY <3>1, <3>2, <3>3
  <2>5. ASSUME NEW q \in client.assigned PROVE t[q] < LogEnd[q]
    <3>1. client.offsets[q] < LogEnd[q]  BY <1>0 DEF KafkaOrdered
    <3>2. QED  BY <1>9, <3>1
  <2>6. ASSUME phase = "run", ~client.rejoins
        PROVE  \A q \in client.assigned :
                 /\ t[q] < Frontier(q)
                 /\ \A j \in Now' : held'[j].m[1] = q => held'[j].m[2] < Frontier(q)
    <3> SUFFICES ASSUME NEW q \in client.assigned
                 PROVE  /\ t[q] < Frontier(q)
                        /\ \A j \in Now' : held'[j].m[1] = q => held'[j].m[2] < Frontier(q)
      OBVIOUS
    <3>1. \A j \in Now : held[j].m[1] = q => held[j].m[2] < Frontier(q)  BY <1>0, <2>6 DEF KafkaOrdered
    <3>2. client.offsets[q] < Frontier(q)  BY <1>0, <2>6 DEF KafkaOrdered
    <3>3. t[q] < Frontier(q)  BY <3>1, <3>2
    <3>4. QED  BY <1>8, <3>1, <3>3
  <2>7. QED  BY <1>7, <2>1, <2>2, <2>3, <2>4, <2>5, <2>6 DEF KafkaOrdered
<1>16. KafkaPosition'
  <2> SUFFICES ASSUME client.strategy # "AlwaysEarliest", client.gen = broker.gen
               PROVE  /\ \A j \in Now' : broker.committed[held'[j].m[1]] <= held'[j].m[2]
                      /\ \A q \in client.assigned : t[q] # -1 => broker.committed[q] <= t[q] + 1
                      /\ phase = "run" /\ ~client.rejoins =>
                            \A q \in client.assigned : broker.committed[q] <= Frontier(q)
    BY <1>7 DEF KafkaPosition
  <2>1. \A j \in Now : broker.committed[held[j].m[1]] <= held[j].m[2]  BY <1>0 DEF KafkaPosition
  <2>2. ASSUME NEW q \in client.assigned, t[q] # -1 PROVE broker.committed[q] <= t[q] + 1
    <3>1. broker.committed[q] \in Nat  BY <1>0, KafkaTypes
    <3>2. CASE t[q] = client.offsets[q]  BY <1>0, <2>2, <3>2 DEF KafkaPosition
    <3>3. CASE i \in Now /\ held[i].m[1] = q /\ t[q] = held[i].m[2]  BY <1>9, <2>1, <3>1, <3>3
    <3>4. QED  BY <3>2, <3>3
  <2>3. QED  BY <1>0, <1>8, <2>1, <2>2 DEF KafkaPosition
<1>17. K!Settled \subseteq K!Settled'  BY DEF K!Settled, K!Rewinds
<1>18. QED  BY <1>5, <1>6, <1>11, <1>12, <1>13, <1>14, <1>15, <1>16, <1>17 DEF KafkaInv, KafkaAnswered

\* The application releases: what it processed is tracked.
LEMMA KafkaReleasedInv ==
    ASSUME KafkaInv, ReleasesInOrder, K!Released
    PROVE  KafkaInv' /\ K!Settled \subseteq K!Settled'
<1>0. KafkaTyped /\ KafkaOrdered  BY DEF KafkaInv
<1>1. PICK i \in DOMAIN held : \E o \in {"ok", "err"} :
        /\ K!Releasable(i) /\ K!Release(i, o) /\ K!Track(held[i], o = "err")
        /\ UNCHANGED <<broker, phase>>
  BY DEF K!Released
<1>2. PICK o \in {"ok", "err"} :
        /\ K!Releasable(i) /\ K!Release(i, o) /\ K!Track(held[i], o = "err")
        /\ UNCHANGED <<broker, phase>>
  BY <1>1
<1> DEFINE ms == {held[i].m}
           p == held[i].m[1]
           n == held[i].m[2]
<1>3. /\ held' = RemoveAt(held, i) /\ outcome' = K!Became(o, ms)
      /\ \A j \in 1..(i - 1) : held[j].m[1] # p
      /\ faults' \in 0..MaxFaults /\ faults <= faults'
  <2>1. held' = RemoveAt(held, i) /\ outcome' = K!Became(o, ms)
    BY <1>2, InstanceOperators DEF K!Release
  <2>2. faults' = faults \/ (faults < MaxFaults /\ faults' = faults + 1)  BY <1>2 DEF K!Release, K!Fault
  <2>3. faults \in 0..MaxFaults /\ MaxFaults \in Nat
    BY <1>0, SourcesAssumption DEF KafkaTyped, SharedInv
  <2>4. \A j \in 1..(i - 1) : held[j].m[1] # p  BY <1>2 DEF K!Releasable
  <2>5. QED  BY <2>1, <2>2, <2>3, <2>4
<1>4. /\ held[i].m \in KafkaMsgs /\ p \in Partitions /\ n \in Nat /\ held[i].epoch \in Nat
      /\ client.epoch \in Nat
  BY <1>0, KafkaTypes
<1>5. ms \in SUBSET KafkaMsgs /\ o \in Outcomes /\ held[i].m \in ms  BY <1>4 DEF Outcomes
<1>6. outcome' \in [KafkaMsgs -> SUBSET Outcomes] /\ K!Answered' = K!Answered \cup ms
  <2> HIDE DEF ms
  <2>1. QED  BY <1>0, <1>3, <1>5, KafkaBecame
<1>7. K!Answered \subseteq K!Answered' /\ held[i].m \in K!Answered'  BY <1>5, <1>6
<1>8. CASE client' = client
  <2>1. client' \in KafkaClient /\ \A q \in client.assigned : client'.offsets[q] = client.offsets[q]
    BY <1>0, <1>8 DEF KafkaTyped
  <2>2. QED  BY <1>2, <1>3, <1>6, <1>7, <1>8, <2>1, KafkaDrops
<1>9. CASE ~(client' = client)
  <2> DEFINE t == [q \in DOMAIN client.offsets \cup {p} |-> IF q = p THEN n ELSE client.offsets[q]]
  <2>1. held[i].epoch = client.epoch /\ client' = [client EXCEPT !.offsets = t]
    BY <1>2, <1>9 DEF K!Track, K!IsCurrent
  <2>2. i \in Now /\ p \in client.assigned  BY <1>0, <2>1 DEF KafkaOrdered, Now
  <2>3. /\ client.offsets \in [client.assigned -> Nat \cup {-1}] /\ client.assigned \in SUBSET Partitions
    BY <1>0, KafkaTypes
  <2>4. /\ t \in [client.assigned -> Nat \cup {-1}] /\ t[p] = n
        /\ \A q \in client.assigned \ {p} : t[q] = client.offsets[q]
    BY <1>4, <2>2, <2>3
  <2> HIDE DEF t
  <2>5. t \in KafkaOffsets /\ DOMAIN t = client.assigned  BY <2>3, <2>4 DEF KafkaOffsets
  <2>6. /\ client' \in KafkaClient /\ client'.epoch = client.epoch /\ client'.gen = client.gen
        /\ client'.assigned = client.assigned /\ client'.strategy = client.strategy
        /\ client'.next = client.next /\ client'.batch = client.batch
        /\ client'.rejoins = client.rejoins /\ client'.offsets = t
    BY <1>0, <2>1, <2>5 DEF KafkaTyped, KafkaClient
  <2>7. DOMAIN client'.offsets = DOMAIN client.offsets  BY <2>3, <2>5, <2>6
  <2>8. \A q \in client.assigned :
          \/ client'.offsets[q] = client.offsets[q]
          \/ /\ i \in Now /\ held[i].m[1] = q /\ client'.offsets[q] = held[i].m[2]
             /\ \A j \in 1..(i - 1) : held[j].m[1] # q
    BY <1>3, <2>2, <2>4, <2>6
  <2>9. QED  BY <1>2, <1>3, <1>6, <1>7, <2>6, <2>7, <2>8, KafkaDrops
<1>10. QED  BY <1>8, <1>9

\* The processor lets go of a copy of an older epoch.
LEMMA KafkaEvictedInv == ASSUME KafkaInv, K!ReleaseEvicted PROVE KafkaInv' /\ K!Settled \subseteq K!Settled'
<1>0. KafkaTyped  BY DEF KafkaInv
<1>1. PICK i \in DOMAIN held :
        /\ held[i].epoch < client.epoch /\ held' = K!RemoveAt(held, i) /\ K!Track(held[i], TRUE)
        /\ UNCHANGED <<broker, outcome, phase, faults>>
  BY DEF K!ReleaseEvicted
<1>2. held' = RemoveAt(held, i) /\ client' = client  BY <1>1, InstanceOperators DEF K!Track
<1>3. i \notin Now
  <2>1. held[i].epoch \in Nat /\ client.epoch \in Nat  BY <1>0, KafkaTypes
  <2>2. held[i].epoch # client.epoch  BY <1>1, <2>1
  <2>3. QED  BY <2>2 DEF Now
<1>4. faults \in 0..MaxFaults /\ MaxFaults \in Nat  BY <1>0, SourcesAssumption DEF KafkaTyped, SharedInv
<1>5. faults' \in 0..MaxFaults /\ faults <= faults'  BY <1>1, <1>4
<1>6. K!Answered' = K!Answered /\ outcome' \in [KafkaMsgs -> SUBSET Outcomes]
  BY <1>0, <1>1, KafkaTypes DEF K!Answered
<1>7. client' \in KafkaClient /\ \A q \in client.assigned : client'.offsets[q] = client.offsets[q]
  BY <1>0, <1>2 DEF KafkaTyped
<1>8. QED  BY <1>1, <1>2, <1>3, <1>5, <1>6, <1>7, KafkaDrops

\* A crash: everything but the positions is gone.
LEMMA KafkaCrashInv == ASSUME KafkaInv, K!Crash PROVE KafkaInv' /\ K!Settled \subseteq K!Settled'
<1>0. KafkaTyped /\ KafkaAnswered  BY DEF KafkaInv
<1>1. /\ faults < MaxFaults /\ faults' = faults + 1 /\ held' = <<>> /\ phase = "run"
      /\ broker' = [broker EXCEPT !.gen = @ + 1, !.mine = Partitions]
      /\ client' = [strategy |-> client.strategy, epoch |-> 0, gen |-> 0, assigned |-> {},
                    offsets |-> <<>>, next |-> [p \in Partitions |-> 0], batch |-> <<>>,
                    rejoins |-> FALSE]
      /\ UNCHANGED <<outcome, phase>>
  BY DEF K!Crash, K!Die, K!Fault, K!Fresh, K!NoBatch
<1>2. /\ client' \in KafkaClient /\ client'.epoch = 0 /\ client'.gen = 0 /\ client'.assigned = {}
      /\ client'.offsets = <<>> /\ client'.batch = <<>> /\ client'.strategy = client.strategy
  <2>1. <<>> \in KafkaOffsets
    <3>1. <<>> \in [{} -> Nat \cup {-1}]  OBVIOUS
    <3>2. QED  BY <3>1 DEF KafkaOffsets
  <2>2. [p \in Partitions |-> 0] \in [Partitions -> Nat] /\ client.strategy \in Strategies
    BY <1>0, KafkaTypes
  <2> DEFINE n == [p \in Partitions |-> 0]
  <2> HIDE DEF n
  <2>3. QED  BY <1>1, <2>1, <2>2 DEF KafkaClient, n
<1>3. /\ broker.committed \in [Partitions -> Nat] /\ broker.gen \in Nat /\ MaxFaults \in Nat
      /\ faults \in 0..MaxFaults
      /\ broker = [committed |-> broker.committed, mine |-> broker.mine, gen |-> broker.gen]
  BY <1>0, KafkaTypes, SourcesAssumption DEF KafkaTyped, SharedInv
<1>4. broker' = [committed |-> broker.committed, mine |-> Partitions, gen |-> broker.gen + 1]
  BY <1>1, <1>3
<1>5. /\ broker' \in KafkaBroker /\ broker'.committed = broker.committed
      /\ broker'.gen = broker.gen + 1
  BY <1>3, <1>4 DEF KafkaBroker
<1>6. KafkaTyped'
  <2>1. held' \in Seq(KafkaCopy) /\ Len(held') <= MaxHeld /\ faults' \in 0..MaxFaults
    BY <1>1, <1>3, SourcesAssumption
  <2>2. DOMAIN client'.offsets = client'.assigned  BY <1>2
  <2>3. /\ client'.epoch <= client'.gen /\ client'.gen <= broker'.gen /\ broker'.gen <= faults' + 1
        /\ client'.gen # broker'.gen
    BY <1>0, <1>1, <1>2, <1>3, <1>5 DEF KafkaTyped
  <2>4. QED  BY <1>0, <1>1, <1>2, <1>5, <2>1, <2>2, <2>3 DEF KafkaTyped, SharedInv
<1>7. KafkaBatch' /\ Now' = {} /\ K!Answered' = K!Answered
  BY <1>1, <1>2 DEF KafkaBatch, Now, K!Answered
<1>8. KafkaAnswered'
  <2>1. FrontierAnswered' /\ CopiesAnswered' /\ TrackedAnswered'
    BY <1>2, <1>7 DEF FrontierAnswered, CopiesAnswered, TrackedAnswered
  <2>2. CommittedAnswered'  BY Zenon, <1>0, <1>5, <1>7 DEF KafkaAnswered, CommittedAnswered
  <2>3. QED  BY <2>1, <2>2 DEF KafkaAnswered
<1>9. KafkaOrdered'  BY <1>1, <1>2, <1>7 DEF KafkaOrdered
<1>10. KafkaPosition'  BY <1>2, <1>7 DEF KafkaPosition
<1>11. K!Settled \subseteq K!Settled'  BY <1>2, <1>5 DEF K!Settled, K!Rewinds
<1>12. QED  BY <1>6, <1>7, <1>8, <1>9, <1>10, <1>11 DEF KafkaInv

\* Every step keeps the invariant, and a committed position stays.
LEMMA KafkaNextInv ==
    ASSUME KafkaInv, ReleasesInOrder, K!Next
    PROVE  KafkaInv' /\ K!Settled \subseteq K!Settled'
BY KafkaRebalanceInv, KafkaOtherInv, KafkaConsumerInv, KafkaCommitInv, KafkaJoinInv, KafkaSkipInv,
   KafkaYieldInv, KafkaReleasedInv, KafkaEvictedInv, KafkaCrashInv DEF K!Next, K!Progress

\* What the invariant says of the properties.
LEMMA KafkaImplies ==
    ASSUME KafkaInv
    PROVE  /\ K!TypeOK /\ K!Settled \subseteq K!Answered
           /\ \A i \in DOMAIN held : held[i].epoch = client.epoch =>
                 \A m \in {<<held[i].m[1], o>> : o \in 0..(held[i].m[2] - 1)} :
                    m \in K!Answered \/ \E j \in 1..(i - 1) : held[j].m = m
<1>0. KafkaTyped /\ KafkaAnswered  BY DEF KafkaInv
<1>1. K!TypeOK
  <2>1. K!SharedTypeOK
    BY <1>0, KafkaTypes DEF KafkaTyped, SharedInv, K!SharedTypeOK, Outcomes, K!Outcomes
  <2>2. client.epoch \in 0..(MaxFaults + 1)
    <3>1. /\ client.epoch \in Nat /\ client.gen \in Nat /\ broker.gen \in Nat /\ MaxFaults \in Nat
          /\ faults \in 0..MaxFaults
      BY <1>0, KafkaTypes, SourcesAssumption DEF KafkaTyped, SharedInv
    <3>2. QED  BY <1>0, <3>1 DEF KafkaTyped
  <2>3. broker \in [committed : [Partitions -> Nat], mine : SUBSET Partitions, gen : Nat]
    BY <1>0 DEF KafkaTyped, KafkaBroker
  <2>4. client.offsets \in [client.assigned -> Nat \cup {K!NoOffset}] /\ client.assigned \subseteq Partitions
    BY <1>0, KafkaTypes DEF K!NoOffset
  <2>5. QED  BY <1>0, <2>1, <2>2, <2>3, <2>4 DEF K!TypeOK, KafkaTyped
<1>2. K!Settled \subseteq K!Answered
  <2> SUFFICES ASSUME NEW m \in KafkaMsgs, m[2] < broker.committed[m[1]] PROVE m \in K!Answered
    BY DEF K!Settled
  <2>1. m[1] \in Partitions /\ m[2] \in Nat /\ m = <<m[1], m[2]>>  BY KafkaMessages
  <2>2. broker.committed[m[1]] \in Nat  BY <1>0, <2>1, KafkaTypes
  <2>3. m[2] \in 0..(broker.committed[m[1]] - 1)  BY <2>1, <2>2
  <2>4. <<m[1], m[2]>> \in K!Answered  BY <1>0, <2>1, <2>3 DEF KafkaAnswered, CommittedAnswered
  <2>5. QED  BY <2>1, <2>4
<1>3. ASSUME NEW i \in DOMAIN held, held[i].epoch = client.epoch, NEW o \in 0..(held[i].m[2] - 1)
      PROVE  <<held[i].m[1], o>> \in K!Answered \/ \E j \in 1..(i - 1) : held[j].m = <<held[i].m[1], o>>
  <2>1. i \in Now  BY <1>3 DEF Now
  <2>2. <<held[i].m[1], o>> \in K!Answered \/ \E j \in OfNow(held[i].m[1]) : j < i /\ held[j].m[2] = o
    BY <1>0, <2>1 DEF KafkaAnswered, CopiesAnswered
  <2>3. CASE \E j \in OfNow(held[i].m[1]) : j < i /\ held[j].m[2] = o
    <3>1. PICK j \in OfNow(held[i].m[1]) : j < i /\ held[j].m[2] = o  BY <2>3
    <3>2. j \in DOMAIN held /\ held[j].m[1] = held[i].m[1]  BY <3>1 DEF OfNow, Now
    <3>3. held[j].m = <<held[j].m[1], held[j].m[2]>> /\ j \in Nat /\ i \in Nat /\ j > 0
      <4>1. held \in Seq(KafkaCopy)  BY <1>0, KafkaTypes
      <4>2. QED  BY <1>0, <3>2, <4>1, KafkaTypes
    <3>4. QED  BY <3>1, <3>2, <3>3
  <2>4. QED  BY <2>2, <2>3
<1>4. QED  BY <1>1, <1>2, <1>3

-----------------------------------------------------------------------------
(* The adapters together.  A member of a Kafka group promises what it does *)
(* to an application that releases the messages of a partition in the      *)
(* order it was handed them; the other adapters promise it to any.         *)

SourcesInv ==
    /\ adapter \in {"kafka", "redis", "push", "azure"}
    /\ Is("kafka") => ReleasesInOrder /\ KafkaInv
    /\ Is("redis") => RedisInv
    /\ Is("push") => PushInv
    /\ Is("azure") => AzureInv

\* The invariant of the adapter that was chosen holds at first,
LEMMA SourcesInit == ASSUME ReleasesInOrder \/ "kafka" \notin Adapters, Init PROVE SourcesInv
<1>1. adapter \in {"kafka", "redis", "push", "azure"}  BY AdaptersAssumption DEF Init
<1>2. QED  BY <1>1, KafkaInit, RedisInit, PushInit, AzureInit DEF Init, SourcesInv, Is

\* and every step of the adapter keeps it.
LEMMA SourcesStep == ASSUME SourcesInv, Next PROVE SourcesInv' /\ Settled \subseteq Settled'
<1>1. adapter' = adapter  BY DEF Next
<1>2. CASE Is("kafka")
  <2>1. KafkaInv' /\ K!Settled \subseteq K!Settled'
    BY <1>2, KafkaNextInv DEF Next, Is, SourcesInv
  <2>2. QED  BY <1>1, <1>2, <2>1 DEF SourcesInv, Settled, Is
<1>3. CASE Is("redis")
  <2>1. RedisInv' /\ R!Settled \subseteq R!Settled'
    BY <1>3, RedisNextInv DEF Next, Is, SourcesInv
  <2>2. QED  BY <1>1, <1>3, <2>1 DEF SourcesInv, Settled, Is
<1>4. CASE Is("push")
  <2>1. PushInv' /\ P!Settled \subseteq P!Settled'
    BY <1>4, PushNextInv DEF Next, Is, SourcesInv
  <2>2. QED  BY <1>1, <1>4, <2>1 DEF SourcesInv, Settled, Is
<1>5. CASE Is("azure")
  <2>1. AzureInv' /\ A!Settled \subseteq A!Settled'
    BY <1>5, AzureNextInv DEF Next, Is, SourcesInv
  <2>2. QED  BY <1>1, <1>5, <2>1 DEF SourcesInv, Settled, Is
<1>6. QED  BY <1>2, <1>3, <1>4, <1>5 DEF SourcesInv, Is

\* Nothing is lost while nothing happens.
LEMMA SourcesStutter == ASSUME SourcesInv, UNCHANGED all PROVE SourcesInv' /\ Settled \subseteq Settled'
<1>0. UNCHANGED <<broker, client, held, outcome, phase, faults, adapter>>  BY DEF all
<1>1. KafkaInv => KafkaInv' /\ K!Settled' = K!Settled
  BY <1>0 DEF KafkaInv, KafkaTyped, SharedInv, KafkaBatch, KafkaAnswered, FrontierAnswered,
     CopiesAnswered, TrackedAnswered, CommittedAnswered, KafkaOrdered, KafkaPosition, Now, OfNow,
     Frontier, K!Answered, K!Settled, K!Rewinds
<1>2. RedisInv => RedisInv' /\ R!Settled' = R!Settled
  BY <1>0 DEF RedisInv, RedisTyped, SharedInv, RedisSound, R!OwnedBy, R!Answered, R!Settled, R!Having
<1>3. PushInv => PushInv' /\ P!Settled' = P!Settled
  BY <1>0 DEF PushInv, PushTyped, SharedInv, PushPlaces, PushSound, PushOrdered, Line, Handed,
     P!Answered, P!Settled, P!Kind, P!InClient
<1>4. AzureInv => AzureInv' /\ A!Settled' = A!Settled
  BY <1>0 DEF AzureInv, AzureTyped, SharedInv, AzureSound, A!Answered, A!Settled, A!Having
<1>5. QED  BY <1>0, <1>1, <1>2, <1>3, <1>4 DEF SourcesInv, Settled, Is

\* So it holds in every behaviour of the adapters.
THEOREM SourcesSafety == ASSUME ReleasesInOrder \/ "kafka" \notin Adapters PROVE Spec => []SourcesInv
<1>1. Init => SourcesInv  BY SourcesInit
<1>2. SourcesInv /\ [Next]_all => SourcesInv'  BY SourcesStep, SourcesStutter
<1>3. QED  BY <1>1, <1>2, PTL DEF Spec

\* Every variable keeps its adapter's type, no queue or number of copies exceeds
\* what was asked for, and an epoch never exceeds the joins that crashes and
\* rebalances cause.
THEOREM TypeCorrect == ASSUME ReleasesInOrder \/ "kafka" \notin Adapters PROVE Spec => []TypeOK
<1>1. SourcesInv => TypeOK
  BY KafkaImplies, RedisImplies, PushImplies, AzureImplies DEF SourcesInv, TypeOK, Is
<1>2. QED  BY <1>1, SourcesSafety, PTL

\* At least once, for every number of messages, copies and faults: what the
\* broker will not deliver again was released by the application, or is no
\* message.
THEOREM AtLeastOnce == ASSUME ReleasesInOrder \/ "kafka" \notin Adapters PROVE Spec => []SettledIsAnswered
<1>1. SourcesInv => SettledIsAnswered
  BY KafkaImplies, RedisImplies, PushImplies, AzureImplies
     DEF SourcesInv, SettledIsAnswered, Settled, Answered, Is
<1>2. QED  BY <1>1, SourcesSafety, PTL

\* No message is passed over by a source that yields in the broker's order,
\* but for those that AmqpSource's queue refused when, or after, it was closed.
THEOREM InOrderNoGap == ASSUME ReleasesInOrder \/ "kafka" \notin Adapters PROVE Spec => []NothingPassedOver
<1>1. ASSUME SourcesInv, NEW i \in DOMAIN held, Ordered(i), NEW m \in Before(held[i].m)
      PROVE  m \in Answered \cup Refused \/ \E j \in 1..i - 1 : held[j].m = m
  <2>1. CASE Is("kafka")
    <3>1. held[i].epoch = client.epoch  BY <1>1, <2>1 DEF Ordered, Is
    <3>2. m \in {<<held[i].m[1], o>> : o \in 0..(held[i].m[2] - 1)}  BY <1>1, <2>1 DEF Before
    <3>3. KafkaInv  BY <1>1, <2>1 DEF SourcesInv
    <3>4. m \in K!Answered \/ \E j \in 1..(i - 1) : held[j].m = m
      BY <3>1, <3>2, <3>3, KafkaImplies
    <3>5. QED  BY <2>1, <3>4 DEF Answered, Is
  <2>2. CASE Is("push")
    <3>1. client.kind # "pubsub"  BY <1>1, <2>2 DEF Ordered, Is
    <3>2. m \in 1..(held[i].m - 1)  BY <1>1, <2>2 DEF Before, Is
    <3>3. PushInv  BY <1>1, <2>2 DEF SourcesInv
    <3>4. m \in P!Answered \cup P!RefusedAtStop \/ \E j \in 1..(i - 1) : held[j].m = m
      BY <3>1, <3>2, <3>3, PushImplies
    <3>5. QED  BY <2>2, <3>4 DEF Answered, Refused, Is
  <2>3. QED  BY <1>1, <2>1, <2>2 DEF Ordered
<1>2. SourcesInv => NothingPassedOver  BY <1>1 DEF NothingPassedOver
<1>3. QED  BY <1>2, SourcesSafety, PTL

\* No rebalance, reconnect, crash or late acknowledgement takes back what is
\* settled: a position or an acknowledgement only goes forward.
THEOREM SettledForGood == ASSUME ReleasesInOrder \/ "kafka" \notin Adapters PROVE Spec => SettledStaysSettled
<1>1. SourcesInv /\ [Next]_all => [Settled \subseteq Settled']_all
  BY SourcesStep DEF all
<1>2. QED  BY <1>1, SourcesSafety, PTL DEF Spec, SettledStaysSettled
=============================================================================

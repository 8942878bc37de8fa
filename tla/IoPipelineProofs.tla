--------------------------- MODULE IoPipelineProofs ---------------------------
(***************************************************************************)
(* The pipeline for every number of backends, every queue and channel size *)
(* and any number of requests: types, and that requests are answered       *)
(* rightly, dispatched at most once and performed only while awaited.      *)
(***************************************************************************)
EXTENDS IoPipeline, TLAPS

Polling == {"poll", "take", "send"}
Active(b) == call[b].pc # "idle"

\* Where the positions of the queue are.
QueueInv ==
  /\ worker.pc \in Polling => tail <= worker.tail /\ worker.tail <= worker.head /\ worker.head <= head
  /\ worker.pc \in {"take", "send"} => worker.tail < worker.head /\ worker.entry \in Backends
  /\ \A b \in Backends : call[b].pc = "claim" => call[b].pos - tail < QueueSize
  /\ \A b \in Backends : call[b].pc = "store" => call[b].pos < head

Waiting == {"push", "room", "claim", "store", "full", "wait", "check"}

\* A slot that is with the worker: its backend waits for it.
Busy(b) == slot[b].state = "InProgress" /\ call[b].pc \in Waiting

\* As long as the worker is not stopping, a request is in one place only: with the
\* main loop, in the channel or with a task.
HolderInv ==
  Alive =>
    /\ worker.pc = "send" => Busy(worker.entry)
    /\ \A i \in 1..Len(channel) : Busy(channel[i].proc)
    /\ \A t \in tasks : Busy(t.proc)
    /\ \A i, j \in 1..Len(channel) : channel[i].proc = channel[j].proc => i = j
    /\ \A t, u \in tasks : t.proc = u.proc => t = u
    /\ \A t \in tasks, i \in 1..Len(channel) : t.proc # channel[i].proc
    /\ worker.pc = "send" => /\ \A t \in tasks : t.proc # worker.entry
                             /\ \A i \in 1..Len(channel) : channel[i].proc # worker.entry

\* What a slot and a task know of the request.
RequestInv ==
  /\ worker.pc = "down" => tasks = {} /\ channel = <<>>
  /\ \A b \in Backends : Active(b) => slot[b].req = call[b].req
  /\ \A t \in tasks : Active(t.proc) => t.req = call[t.proc].req
  /\ \A b \in Backends : Active(b) /\ slot[b].state = "Completed" => slot[b].result = call[b].req
  /\ \A b \in Backends : call[b].pc = "read" => slot[b].state = "Completed"
  /\ \A b \in Backends : call[b].pc = "give_up" => ~Alive

\* Requests that have not been dispatched.
DispatchInv ==
  /\ \A r \in Requests : r > requests => dispatched[r] = 0
  /\ \A b \in Backends : call[b].req <= requests
  /\ \A b, c \in Backends : Active(b) /\ Active(c) /\ call[b].req = call[c].req => b = c
  /\ \A b \in Backends : slot[b].state = "Submitted" => Active(b) /\ dispatched[call[b].req] = 0
  /\ worker.pc = "send" => dispatched[call[worker.entry].req] = 0
  /\ DispatchedOnce

\* Generations grow with the number of attaches only.
GenInv == \A b \in Backends : slot[b].gen <= attaches

PipelineInv == TypeOK /\ GenInv /\ QueueInv /\ HolderInv /\ RequestInv /\ DispatchInv

-----------------------------------------------------------------------------
(* Types *)

Loops == [pc : {"down", "loop", "poll", "take", "send", "stopping"},
          head : Nat, tail : Nat, entry : Backends \cup {Nobody}]

LEMMA Types ==
  ASSUME TypeOK
  PROVE  /\ slot \in [Backends -> Slots] /\ head \in Nat /\ tail \in Nat
         /\ entries \in [0..(QueueSize - 1) -> Backends \cup {Nobody}]
         /\ call \in [Backends -> Calls] /\ worker \in Loops
         /\ channel \in Seq(Work) /\ tasks \subseteq Tasks
         /\ requests \in Requests /\ stops \in 0..MaxStops /\ attaches \in 0..MaxAttaches
         /\ dispatched \in [Requests -> Nat] /\ overrun \in BOOLEAN
         /\ tail <= head /\ (~overrun => head - tail <= QueueSize)
BY DEF TypeOK, Loops

LEMMA Fields ==
  ASSUME TypeOK
  PROVE  /\ worker.head \in Nat /\ worker.tail \in Nat /\ worker.entry \in Backends \cup {Nobody}
         /\ \A b \in Backends : call[b].pos \in Nat /\ call[b].req \in Requests /\ call[b].try \in 1..2
         /\ \A b \in Backends : slot[b].req \in Requests /\ slot[b].result \in Requests
         /\ \A b \in Backends : slot[b].gen \in 0..MaxAttaches
BY Types DEF Loops, Calls, Slots

LEMMA Numbers ==
  /\ \A p \in Nat : p % QueueSize \in 0..(QueueSize - 1)
  /\ \A r \in Requests : r \in Nat
  /\ 0 \in Requests
  /\ 1 \in 1..2 /\ 2 \in 1..2 /\ 0 \in Nat
  /\ NoCall \in Calls
<1>1. 0 \in Requests /\ (\A r \in Requests : r \in Nat) /\ 1 \in 1..2 /\ 2 \in 1..2 /\ 0 \in Nat
  BY PipelineAssumption DEF Requests
<1>2. \A p \in Nat : p % QueueSize \in 0..(QueueSize - 1)
  BY PipelineAssumption
<1>3. NoCall \in Calls
  BY <1>1 DEF NoCall, Calls
<1> QED
  BY <1>1, <1>2, <1>3

\* One slot, or one call, is replaced.
LEMMA SlotPut ==
  ASSUME TypeOK, NEW b \in Backends, NEW d \in Slots, slot' = [slot EXCEPT ![b] = d]
  PROVE  slot' \in [Backends -> Slots]
BY Types

LEMMA CallPut ==
  ASSUME TypeOK, NEW b \in Backends, NEW d \in Calls, call' = [call EXCEPT ![b] = d]
  PROVE  call' \in [Backends -> Calls]
BY Types

LEMMA StatePut ==
  ASSUME TypeOK, NEW b \in Backends, NEW s \in {"Free", "Submitted", "InProgress", "Completed"},
         SetState(b, s)
  PROVE  slot' \in [Backends -> Slots]
<1> DEFINE d == [slot[b] EXCEPT !.state = s]
<1>1. slot[b] \in Slots
  BY Types
<1>2. d \in Slots
  BY <1>1 DEF Slots
<1>3. slot' = [slot EXCEPT ![b] = d]
  BY DEF SetState
<1> QED
  BY <1>2, <1>3, SlotPut

LEMMA ClearType ==
  ASSUME TypeOK, Clear
  PROVE  entries' \in [0..(QueueSize - 1) -> Backends \cup {Nobody}]
<1>1. worker.tail % QueueSize \in 0..(QueueSize - 1)
  BY Fields, Numbers
<1> QED
  BY <1>1, Types DEF Clear

LEMMA NextType ==
  ASSUME TypeOK
  PROVE  Next1 \in Loops
<1>1. worker.tail + 1 \in Nat
  BY Fields
<1> QED
  BY <1>1, Types DEF Next1, Loops


LEMMA TypeStep ==
  ASSUME TypeOK, GenInv, QueueInv, Next
  PROVE  TypeOK'
<1>1. ASSUME NEW b \in Backends, Attach(b) PROVE TypeOK'
  <2> DEFINE d == [slot[b] EXCEPT !.state = "Free", !.gen = slot[b].gen + 1, !.result = 0]
  <2>1. slot[b] \in Slots /\ slot[b].gen \in Nat /\ slot[b].gen <= attaches
    BY Types, Fields DEF GenInv
  <2>2. attaches \in Nat /\ MaxAttaches \in Nat
    BY Types, PipelineAssumption
  <2>3. attaches < MaxAttaches /\ attaches' = attaches + 1
    BY <1>1 DEF Attach
  <2>4. attaches' \in 0..MaxAttaches /\ slot[b].gen + 1 \in 0..MaxAttaches
    BY <2>1, <2>2, <2>3
  <2>5. d \in Slots
    BY <2>1, <2>4, Numbers DEF Slots
  <2>6. slot' = [slot EXCEPT ![b] = d]
    BY <1>1 DEF Attach
  <2>7. slot' \in [Backends -> Slots]
    BY <2>5, <2>6, SlotPut
  <2>8. UNCHANGED <<head, tail, entries, call, worker, channel, tasks, requests, stops, dispatched,
                    overrun>>
    BY <1>1 DEF Attach, queue, history
  <2> QED
    BY <2>4, <2>7, <2>8, Types DEF TypeOK, Loops
<1>2. ASSUME NEW b \in Backends, Publish(b) PROVE TypeOK'
  <2> DEFINE d == [slot[b] EXCEPT !.state = "Submitted", !.req = requests + 1, !.result = 0]
  <2>1. requests + 1 \in Requests /\ requests' = requests + 1
    BY <1>2, Types, PipelineAssumption DEF Publish, Requests
  <2>2. slot[b] \in Slots
    BY Types
  <2>3. d \in Slots
    BY <2>1, <2>2, Numbers DEF Slots
  <2>4. slot' = [slot EXCEPT ![b] = d]
    BY <1>2 DEF Publish
  <2>5. slot' \in [Backends -> Slots]
    BY <2>3, <2>4, SlotPut
  <2>6. [pc |-> "push", req |-> requests + 1, pos |-> 0, try |-> 1] \in Calls
    BY <2>1 DEF Calls
  <2>7. call' \in [Backends -> Calls]
    BY <1>2, <2>6, CallPut DEF Publish
  <2>8. UNCHANGED <<head, tail, entries, worker, channel, tasks, stops, attaches, dispatched, overrun>>
    BY <1>2 DEF Publish, queue, history
  <2> QED
    BY <2>1, <2>5, <2>7, <2>8, Types DEF TypeOK, Loops
<1>3. ASSUME NEW b \in Backends, PushHead(b) PROVE TypeOK'
  <2> DEFINE d == [call[b] EXCEPT !.pc = "room", !.pos = head]
  <2>1. call[b] \in Calls
    BY Types
  <2>2. d \in Calls
    BY <2>1, Types, Numbers DEF Calls
  <2>3. call' = [call EXCEPT ![b] = d]
    BY <1>3 DEF PushHead
  <2>4. call' \in [Backends -> Calls]
    BY <2>2, <2>3, CallPut
  <2>5. UNCHANGED <<slot, head, tail, entries, worker, channel, tasks, requests, stops, attaches,
                    dispatched, overrun>>
    BY <1>3 DEF PushHead, queue, history
  <2> QED
    BY <2>4, <2>5, Types DEF TypeOK, Loops
<1>4. ASSUME NEW b \in Backends, PushRoom(b) PROVE TypeOK'
  <2> DEFINE c == [call[b] EXCEPT !.pc = "claim"]
  <2> DEFINE f == [call[b] EXCEPT !.pc = "full"]
  <2> DEFINE p == [call[b] EXCEPT !.pc = "push", !.pos = 0, !.try = 1]
  <2>1. call[b] \in Calls
    BY Types
  <2>2. c \in Calls /\ f \in Calls /\ p \in Calls
    BY <2>1, Numbers DEF Calls
  <2>3. \/ call' = [call EXCEPT ![b] = c] \/ call' = [call EXCEPT ![b] = f] \/ call' = [call EXCEPT ![b] = p]
    BY <1>4 DEF PushRoom
  <2>4. call' \in [Backends -> Calls]
    BY <2>2, <2>3, CallPut
  <2>5. UNCHANGED <<slot, head, tail, entries, worker, channel, tasks, requests, stops, attaches,
                    dispatched, overrun>>
    BY <1>4 DEF PushRoom, queue, history
  <2> QED
    BY <2>4, <2>5, Types DEF TypeOK, Loops
<1>5. ASSUME NEW b \in Backends, PushClaim(b) PROVE TypeOK'
  <2> DEFINE d == [call[b] EXCEPT !.pc = "store", !.pos = head]
  <2>1. call[b] \in Calls
    BY Types
  <2>2. d \in Calls
    BY <2>1, Types, Numbers DEF Calls
  <2>3. call' = [call EXCEPT ![b] = d]
    BY <1>5 DEF PushClaim
  <2>4. call' \in [Backends -> Calls]
    BY <2>2, <2>3, CallPut
  <2>5. call[b].pos - tail < QueueSize /\ call[b].pos \in Nat
    BY <1>5, Fields DEF PushClaim, QueueInv
  <2>6. head' = head + 1 /\ tail' = tail /\ overrun' = (overrun \/ (head # call[b].pos /\ head - tail >= QueueSize))
    BY <1>5 DEF PushClaim
  <2>7. head' \in Nat /\ tail' <= head'
    BY <2>6, Types
  <2>8. overrun' \in BOOLEAN
    BY <2>6, Types
  <2>9. ~overrun' => ~overrun /\ (head = call[b].pos \/ ~(head - tail >= QueueSize))
    BY <2>6
  <2>10. ~overrun' => (head + 1) - tail <= QueueSize
    BY <2>5, <2>9, Types, PipelineAssumption
  <2>11. head' - tail' = (head + 1) - tail
    BY <1>5 DEF PushClaim
  <2>12. ~overrun' => head' - tail' <= QueueSize
    BY <2>10, <2>11, Zenon
  <2>13. UNCHANGED <<slot, tail, entries, worker, channel, tasks, requests, stops, attaches, dispatched>>
    BY <1>5 DEF PushClaim, queue, history
  <2> QED
    BY <2>4, <2>7, <2>8, <2>12, <2>13, Types DEF TypeOK, Loops
<1>6. ASSUME NEW b \in Backends, PushStore(b) PROVE TypeOK'
  <2> DEFINE d == [call[b] EXCEPT !.pc = "wait", !.pos = 0, !.try = 1]
  <2>1. call[b] \in Calls
    BY Types
  <2>2. d \in Calls
    BY <2>1, Types, Numbers DEF Calls
  <2>3. call' = [call EXCEPT ![b] = d]
    BY <1>6 DEF PushStore
  <2>4. call' \in [Backends -> Calls]
    BY <2>2, <2>3, CallPut
  <2>5. call[b].pos % QueueSize \in 0..(QueueSize - 1)
    BY Fields, Numbers
  <2>6. entries' \in [0..(QueueSize - 1) -> Backends \cup {Nobody}]
    BY <1>6, <2>5, Types DEF PushStore
  <2>7. UNCHANGED <<slot, head, tail, worker, channel, tasks, requests, stops, attaches,
                    dispatched, overrun>>
    BY <1>6 DEF PushStore, queue, history
  <2> QED
    BY <2>4, <2>6, <2>7, Types DEF TypeOK, Loops
<1>7. ASSUME NEW b \in Backends, PushAgain(b) PROVE TypeOK'
  <2> DEFINE d == [call[b] EXCEPT !.pc = "push", !.pos = 0, !.try = 2]
  <2>1. call[b] \in Calls
    BY Types
  <2>2. d \in Calls
    BY <2>1, Types, Numbers DEF Calls
  <2>3. call' = [call EXCEPT ![b] = d]
    BY <1>7 DEF PushAgain
  <2>4. call' \in [Backends -> Calls]
    BY <2>2, <2>3, CallPut
  <2>5. UNCHANGED <<slot, head, tail, entries, worker, channel, tasks, requests, stops, attaches,
                    dispatched, overrun>>
    BY <1>7 DEF PushAgain, queue, history
  <2> QED
    BY <2>4, <2>5, Types DEF TypeOK, Loops
<1>8. ASSUME NEW b \in Backends, PushGiveUp(b) PROVE TypeOK'
  <2>1. slot' \in [Backends -> Slots]
    BY <1>8, StatePut DEF PushGiveUp
  <2>2. call' \in [Backends -> Calls]
    BY <1>8, Numbers, CallPut DEF PushGiveUp
  <2>3. UNCHANGED <<head, tail, entries, worker, channel, tasks, requests, stops, attaches,
                    dispatched, overrun>>
    BY <1>8 DEF PushGiveUp, queue, history
  <2> QED
    BY <2>1, <2>2, <2>3, Types DEF TypeOK, Loops
<1>9. ASSUME NEW b \in Backends, Release(b) PROVE TypeOK'
  <2>1. slot' \in [Backends -> Slots]
    BY <1>9, StatePut DEF Release
  <2>2. call' \in [Backends -> Calls]
    BY <1>9, Numbers, CallPut DEF Release
  <2>3. UNCHANGED <<head, tail, entries, worker, channel, tasks, requests, stops, attaches,
                    dispatched, overrun>>
    BY <1>9 DEF Release, queue, history
  <2> QED
    BY <2>1, <2>2, <2>3, Types DEF TypeOK, Loops
<1>10. ASSUME NEW b \in Backends, WaitCheck(b) PROVE TypeOK'
  <2> DEFINE d == [call[b] EXCEPT !.pc = IF slot[b].state = "Completed" THEN "read" ELSE "check"]
  <2>1. call[b] \in Calls
    BY Types
  <2>2. d \in Calls
    BY <2>1, Types, Numbers DEF Calls
  <2>3. call' = [call EXCEPT ![b] = d]
    BY <1>10 DEF WaitCheck
  <2>4. call' \in [Backends -> Calls]
    BY <2>2, <2>3, CallPut
  <2>5. UNCHANGED <<slot, head, tail, entries, worker, channel, tasks, requests, stops, attaches,
                    dispatched, overrun>>
    BY <1>10 DEF WaitCheck, queue, history
  <2> QED
    BY <2>4, <2>5, Types DEF TypeOK, Loops
<1>11. ASSUME NEW b \in Backends, WaitAlive(b) PROVE TypeOK'
  <2> DEFINE d == [call[b] EXCEPT !.pc = IF Alive THEN "wait" ELSE "give_up"]
  <2>1. call[b] \in Calls
    BY Types
  <2>2. d \in Calls
    BY <2>1, Types, Numbers DEF Calls
  <2>3. call' = [call EXCEPT ![b] = d]
    BY <1>11 DEF WaitAlive
  <2>4. call' \in [Backends -> Calls]
    BY <2>2, <2>3, CallPut
  <2>5. UNCHANGED <<slot, head, tail, entries, worker, channel, tasks, requests, stops, attaches,
                    dispatched, overrun>>
    BY <1>11 DEF WaitAlive, queue, history
  <2> QED
    BY <2>4, <2>5, Types DEF TypeOK, Loops
<1>12. CASE PollBegin
  <2>1. worker' \in Loops
    BY <1>12, Types DEF PollBegin, Loops
  <2>2. UNCHANGED <<slot, head, tail, entries, call, channel, tasks, requests, stops, attaches,
                    dispatched, overrun>>
    BY <1>12 DEF PollBegin, queue, history
  <2> QED
    BY <2>1, <2>2, Types DEF TypeOK, Loops
<1>13. CASE PollLoad
  <2>1. worker.tail % QueueSize \in 0..(QueueSize - 1)
    BY Fields, Numbers
  <2>2. worker' \in Loops
    BY <1>13, <2>1, Types DEF PollLoad, Loops
  <2>3. UNCHANGED <<slot, head, tail, entries, call, channel, tasks, requests, stops, attaches,
                    dispatched, overrun>>
    BY <1>13 DEF PollLoad, queue, history
  <2> QED
    BY <2>2, <2>3, Types DEF TypeOK, Loops
<1>14. CASE PollEnd
  <2>1. tail' = worker.tail /\ worker.tail \in Nat /\ tail <= worker.tail /\ worker.tail <= head
    BY <1>14, Types, Fields DEF PollEnd, QueueInv, Polling
  <2>2. tail' \in Nat /\ head' = head /\ tail' <= head' /\ head' - tail' <= head - tail /\ QueueSize \in Nat
    BY <1>14, <2>1, Types, PipelineAssumption DEF PollEnd
  <2>3. tail' \in Nat /\ tail' <= head' /\ (~overrun' => head' - tail' <= QueueSize)
    BY <1>14, <2>1, <2>2, Types DEF PollEnd, history
  <2>4. worker' \in Loops
    BY <1>14 DEF PollEnd, Down, Loops
  <2>5. UNCHANGED <<slot, head, entries, call, channel, tasks, requests, stops, attaches,
                    dispatched, overrun>>
    BY <1>14 DEF PollEnd, queue, history
  <2> QED
    BY <2>3, <2>4, <2>5, Types DEF TypeOK, Loops
<1>15. CASE PollSkip
  <2>1. entries' \in [0..(QueueSize - 1) -> Backends \cup {Nobody}]
    BY <1>15, ClearType DEF PollSkip
  <2>2. worker' \in Loops
    BY <1>15, NextType DEF PollSkip
  <2>3. UNCHANGED <<slot, head, tail, call, channel, tasks, requests, stops, attaches, dispatched, overrun>>
    BY <1>15 DEF PollSkip, queue, history
  <2> QED
    BY <2>1, <2>2, <2>3, Types DEF TypeOK, Loops
<1>16. CASE PollInvalid
  <2> DEFINE b == worker.entry
  <2> DEFINE d == [slot[b] EXCEPT !.state = "Completed", !.result = slot[b].req]
  <2>1. b \in Backends
    BY <1>16 DEF PollInvalid, QueueInv
  <2>2. slot[b] \in Slots
    BY <2>1, Types
  <2>3. d \in Slots
    BY <2>2 DEF Slots
  <2>4. slot' = [slot EXCEPT ![b] = d]
    BY <1>16 DEF PollInvalid
  <2>5. slot' \in [Backends -> Slots]
    BY <2>1, <2>3, <2>4, SlotPut
  <2>6. entries' \in [0..(QueueSize - 1) -> Backends \cup {Nobody}]
    BY <1>16, ClearType DEF PollInvalid
  <2>7. worker' \in Loops
    BY <1>16, NextType DEF PollInvalid
  <2>8. UNCHANGED <<head, tail, call, channel, tasks, requests, stops, attaches, dispatched, overrun>>
    BY <1>16 DEF PollInvalid, queue, history
  <2> QED
    BY <2>5, <2>6, <2>7, <2>8, Types DEF TypeOK, Loops
<1>17. CASE PollTake
  <2>1. worker.entry \in Backends
    BY <1>17 DEF PollTake, QueueInv
  <2>2. slot' \in [Backends -> Slots]
    BY <1>17, <2>1, StatePut DEF PollTake
  <2>3. worker' \in Loops
    BY <1>17, Types DEF PollTake, Loops
  <2>4. UNCHANGED <<head, tail, entries, call, channel, tasks, requests, stops, attaches,
                    dispatched, overrun>>
    BY <1>17 DEF PollTake, queue, history
  <2> QED
    BY <2>2, <2>3, <2>4, Types DEF TypeOK, Loops
<1>18. CASE PollSend
  <2> DEFINE b == worker.entry
  <2>1. b \in Backends
    BY <1>18 DEF PollSend, QueueInv
  <2>2. slot[b].req \in Requests /\ slot[b].gen \in 0..MaxAttaches
    BY <2>1, Fields
  <2>3. [proc |-> b, gen |-> slot[b].gen] \in Work
    BY <2>1, <2>2 DEF Work
  <2>4. channel' \in Seq(Work)
    BY <1>18, <2>3, Types DEF PollSend
  <2>5. dispatched' \in [Requests -> Nat]
    BY <1>18, <2>2, Types DEF PollSend
  <2>6. entries' \in [0..(QueueSize - 1) -> Backends \cup {Nobody}]
    BY <1>18, ClearType DEF PollSend
  <2>7. worker' \in Loops
    BY <1>18, NextType DEF PollSend
  <2>8. UNCHANGED <<slot, head, tail, call, tasks, requests, stops, attaches, overrun>>
    BY <1>18 DEF PollSend, queue, history
  <2> QED
    BY <2>4, <2>5, <2>6, <2>7, <2>8, Types DEF TypeOK, Loops
<1>19. CASE PollFull
  <2>1. tail' = worker.tail /\ worker.tail \in Nat /\ tail <= worker.tail /\ worker.tail <= head
    BY <1>19, Types, Fields DEF PollFull, QueueInv, Polling
  <2>2. tail' \in Nat /\ head' = head /\ tail' <= head' /\ head' - tail' <= head - tail /\ QueueSize \in Nat
    BY <1>19, <2>1, Types, PipelineAssumption DEF PollFull
  <2>3. tail' \in Nat /\ tail' <= head' /\ (~overrun' => head' - tail' <= QueueSize)
    BY <1>19, <2>1, <2>2, Types DEF PollFull, history
  <2>4. worker.entry \in Backends
    BY <1>19 DEF PollFull, QueueInv
  <2>5. slot' \in [Backends -> Slots]
    BY <1>19, <2>4, StatePut DEF PollFull
  <2>6. worker' \in Loops
    BY <1>19 DEF PollFull, Down, Loops
  <2>7. UNCHANGED <<head, entries, call, channel, tasks, requests, stops, attaches, dispatched, overrun>>
    BY <1>19 DEF PollFull, queue, history
  <2> QED
    BY <2>3, <2>5, <2>6, <2>7, Types DEF TypeOK, Loops
<1>20. CASE WorkerStart
  <2>1. worker' \in Loops
    BY <1>20 DEF WorkerStart, Down, Loops
  <2>2. UNCHANGED <<slot, head, tail, entries, call, channel, tasks, requests, stops, attaches,
                    dispatched, overrun>>
    BY <1>20 DEF WorkerStart, queue, history
  <2> QED
    BY <2>1, <2>2, Types DEF TypeOK, Loops
<1>21. CASE WorkerStop
  <2>1. worker' \in Loops
    BY <1>21 DEF WorkerStop, Down, Loops
  <2>2. stops' \in 0..MaxStops
    BY <1>21, Types, PipelineAssumption DEF WorkerStop
  <2>3. UNCHANGED <<slot, head, tail, entries, call, channel, tasks, requests, attaches,
                    dispatched, overrun>>
    BY <1>21 DEF WorkerStop, queue, history
  <2> QED
    BY <2>1, <2>2, <2>3, Types DEF TypeOK, Loops
<1>22. CASE WorkerExit
  <2>1. worker' \in Loops
    BY <1>22 DEF WorkerExit, Down, Loops
  <2>2. stops' = stops \/ (stops < MaxStops /\ stops' = stops + 1)
    BY <1>22 DEF WorkerExit
  <2>3. stops' \in 0..MaxStops
    BY <2>2, Types, PipelineAssumption
  <2>4. channel' \in Seq(Work) /\ tasks' \subseteq Tasks
    BY <1>22 DEF WorkerExit
  <2>5. UNCHANGED <<slot, head, tail, entries, call, requests, attaches, dispatched, overrun>>
    BY <1>22 DEF WorkerExit, queue, history
  <2> QED
    BY <2>1, <2>3, <2>4, <2>5, Types DEF TypeOK, Loops
<1>23. CASE Receive
  <2> DEFINE w == Head(channel)
  <2> DEFINE u == [proc |-> w.proc, gen |-> w.gen, req |-> slot[w.proc].req, pc |-> "io"]
  <2>1. w \in Work /\ Tail(channel) \in Seq(Work)
    BY <1>23, Types DEF Receive
  <2>2. w.proc \in Backends /\ w.gen \in 0..MaxAttaches
    BY <2>1 DEF Work
  <2>3. u \in Tasks
    BY <2>2, Fields DEF Tasks
  <2>4. tasks' = tasks \cup {u} /\ channel' = Tail(channel)
    BY <1>23 DEF Receive
  <2>5. tasks' \subseteq Tasks /\ channel' \in Seq(Work)
    BY <2>1, <2>3, <2>4, Types
  <2>6. UNCHANGED <<slot, head, tail, entries, call, worker, requests, stops, attaches, dispatched,
                    overrun>>
    BY <1>23 DEF Receive, queue, history
  <2> QED
    BY <2>5, <2>6, Types DEF TypeOK, Loops
<1>24. ASSUME NEW t \in tasks, TaskIo(t) PROVE TypeOK'
  <2> DEFINE u == [t EXCEPT !.pc = "check"]
  <2>1. t \in Tasks
    BY Types
  <2>2. u \in Tasks
    BY <2>1 DEF Tasks
  <2>3. tasks' \subseteq tasks \cup {u}
    BY <1>24 DEF TaskIo
  <2>4. tasks' \subseteq Tasks
    BY <2>2, <2>3, Types
  <2>5. UNCHANGED <<slot, head, tail, entries, call, worker, channel, requests, stops, attaches,
                    dispatched, overrun>>
    BY <1>24 DEF TaskIo, queue, history
  <2> QED
    BY <2>4, <2>5, Types DEF TypeOK, Loops
<1>25. ASSUME NEW t \in tasks, TaskCheck(t) PROVE TypeOK'
  <2> DEFINE u == [t EXCEPT !.pc = "complete"]
  <2>1. t \in Tasks
    BY Types
  <2>2. u \in Tasks
    BY <2>1 DEF Tasks
  <2>3. tasks' \subseteq tasks \cup {u}
    BY <1>25 DEF TaskCheck
  <2>4. tasks' \subseteq Tasks
    BY <2>2, <2>3, Types
  <2>5. UNCHANGED <<slot, head, tail, entries, call, worker, channel, requests, stops, attaches,
                    dispatched, overrun>>
    BY <1>25 DEF TaskCheck, queue, history
  <2> QED
    BY <2>4, <2>5, Types DEF TypeOK, Loops
<1>26. ASSUME NEW t \in tasks, TaskComplete(t) PROVE TypeOK'
  <2> DEFINE d == [slot[t.proc] EXCEPT !.state = "Completed", !.result = t.req]
  <2>1. t \in Tasks
    BY Types
  <2>2. t.proc \in Backends /\ t.req \in Requests
    BY <2>1 DEF Tasks
  <2>3. slot[t.proc] \in Slots
    BY <2>2, Types
  <2>4. d \in Slots
    BY <2>2, <2>3 DEF Slots
  <2>5. slot' = [slot EXCEPT ![t.proc] = d]
    BY <1>26 DEF TaskComplete
  <2>6. slot' \in [Backends -> Slots]
    BY <2>2, <2>4, <2>5, SlotPut
  <2>7. tasks' \subseteq Tasks
    BY <1>26, Types DEF TaskComplete
  <2>8. UNCHANGED <<head, tail, entries, call, worker, channel, requests, stops, attaches,
                    dispatched, overrun>>
    BY <1>26 DEF TaskComplete, queue, history
  <2> QED
    BY <2>6, <2>7, <2>8, Types DEF TypeOK, Loops
<1> QED
  BY <1>1, <1>2, <1>3, <1>4, <1>5, <1>6, <1>7, <1>8, <1>9, <1>10, <1>11, <1>12, <1>13,
     <1>14, <1>15, <1>16, <1>17, <1>18, <1>19, <1>20, <1>21, <1>22, <1>23, <1>24, <1>25, <1>26
     DEF Next, CallStep, PollStep, TaskStep

-----------------------------------------------------------------------------
(* What an action does to the calls and slots it touches *)

\* A call goes on waiting.
CallMoves(b) ==
  /\ call[b].pc \in Waiting /\ call'[b].pc \in Waiting /\ call'[b].req = call[b].req
  /\ \A c \in Backends \ {b} : call'[c] = call[c]
  /\ UNCHANGED <<slot, worker, channel, tasks, requests, attaches, dispatched>>

\* A call has found its result, or that there is no worker.
CallTurns(b) ==
  /\ call[b].pc \in Waiting /\ call'[b].req = call[b].req
  /\ \/ call'[b].pc = "read" /\ slot[b].state = "Completed"
     \/ call'[b].pc = "give_up" /\ ~Alive
  /\ \A c \in Backends \ {b} : call'[c] = call[c]
  /\ UNCHANGED <<slot, worker, channel, tasks, requests, attaches, dispatched>>

CallEnds(b) ==
  /\ call[b].pc # "idle"
  /\ call[b].pc = "read" \/ ~Alive
  /\ call'[b] = NoCall
  /\ slot'[b].state = "Free" /\ slot'[b].gen = slot[b].gen
  /\ \A c \in Backends \ {b} : call'[c] = call[c] /\ slot'[c] = slot[c]
  /\ UNCHANGED <<worker, channel, tasks, requests, attaches, dispatched>>

\* The main loop moves without touching a request.
LoopMoves ==
  /\ worker.pc \in {"loop", "poll", "take"} /\ worker'.pc \in {"loop", "poll", "take"}
  /\ UNCHANGED <<slot, call, channel, tasks, requests, attaches, dispatched>>

\* A slot gets a new state, and perhaps a result.
SlotTurns(b, s) ==
  /\ slot'[b].state = s /\ slot'[b].req = slot[b].req /\ slot'[b].gen = slot[b].gen
  /\ \A c \in Backends \ {b} : slot'[c] = slot[c]

TaskMoves(t, u) ==
  /\ u.proc = t.proc /\ u.req = t.req
  /\ tasks' = (tasks \ {t}) \cup {u}
  /\ UNCHANGED <<slot, call, worker, channel, requests, attaches, dispatched>>

LEMMA StateTurns ==
  ASSUME TypeOK, NEW b \in Backends, NEW s, SetState(b, s)
  PROVE  SlotTurns(b, s) /\ slot'[b].result = slot[b].result
BY Types DEF SetState, SlotTurns, Slots

LEMMA CallMovesSteps ==
  ASSUME TypeOK, NEW b \in Backends,
         PushHead(b) \/ PushRoom(b) \/ PushClaim(b) \/ PushStore(b) \/ PushAgain(b)
  PROVE  CallMoves(b)
<1>1. call \in [Backends -> Calls]
  BY Types
<1>2. CASE PushHead(b)
  BY <1>1, <1>2 DEF PushHead, CallMoves, Waiting, Calls, history
<1>3. CASE PushRoom(b)
  BY <1>1, <1>3 DEF PushRoom, CallMoves, Waiting, Calls, history
<1>4. CASE PushClaim(b)
  BY <1>1, <1>4 DEF PushClaim, CallMoves, Waiting, Calls
<1>5. CASE PushStore(b)
  BY <1>1, <1>5 DEF PushStore, CallMoves, Waiting, Calls, history
<1>6. CASE PushAgain(b)
  BY <1>1, <1>6 DEF PushAgain, CallMoves, Waiting, Calls, history
<1> QED
  BY <1>2, <1>3, <1>4, <1>5, <1>6

LEMMA WaitSteps ==
  ASSUME TypeOK, NEW b \in Backends, WaitCheck(b) \/ WaitAlive(b)
  PROVE  CallMoves(b) \/ CallTurns(b)
<1>1. call \in [Backends -> Calls]
  BY Types
<1>2. CASE WaitCheck(b)
  BY <1>1, <1>2 DEF WaitCheck, CallMoves, CallTurns, Waiting, Calls, history
<1>3. CASE WaitAlive(b)
  BY <1>1, <1>3 DEF WaitAlive, CallMoves, CallTurns, Waiting, Calls, history
<1> QED
  BY <1>2, <1>3

LEMMA EndSteps ==
  ASSUME TypeOK, RequestInv, NEW b \in Backends, PushGiveUp(b) \/ Release(b)
  PROVE  CallEnds(b)
<1>1. call \in [Backends -> Calls]
  BY Types
<1>2. SetState(b, "Free") /\ call' = [call EXCEPT ![b] = NoCall]
      /\ UNCHANGED <<worker, channel, tasks, requests, attaches, dispatched>>
  BY DEF PushGiveUp, Release, history
<1>3. SlotTurns(b, "Free")
  BY <1>2, StateTurns
<1>4. call'[b] = NoCall /\ \A c \in Backends \ {b} : call'[c] = call[c]
  BY <1>1, <1>2
<1>5. call[b].pc # "idle" /\ (call[b].pc = "read" \/ ~Alive)
  BY DEF PushGiveUp, Release, RequestInv
<1> QED
  BY <1>2, <1>3, <1>4, <1>5 DEF CallEnds, SlotTurns

LEMMA LoopSteps ==
  ASSUME TypeOK, PollBegin \/ PollLoad \/ PollEnd \/ PollSkip
  PROVE  LoopMoves
<1>1. CASE PollBegin
  BY <1>1, Types DEF PollBegin, LoopMoves, Loops, history
<1>2. CASE PollLoad
  BY <1>2, Types DEF PollLoad, LoopMoves, Loops, history
<1>3. CASE PollEnd
  BY <1>3, Types DEF PollEnd, LoopMoves, Down, history
<1>4. CASE PollSkip
  BY <1>4, Types DEF PollSkip, LoopMoves, Next1, Loops, history
<1> QED
  BY <1>1, <1>2, <1>3, <1>4

LEMMA TaskSteps ==
  ASSUME TypeOK, NEW t \in tasks, TaskIo(t) \/ TaskCheck(t)
  PROVE  \/ \E u \in Tasks : TaskMoves(t, u) /\ u.pc # "io"
         \/ tasks' = tasks \ {t} /\ UNCHANGED <<slot, call, worker, channel, requests, attaches, dispatched>>
<1>1. t \in Tasks
  BY Types
<1>2. CASE TaskIo(t)
  <2> DEFINE u == [t EXCEPT !.pc = "check"]
  <2>1. u \in Tasks /\ u.proc = t.proc /\ u.req = t.req /\ u.pc = "check"
    BY <1>1 DEF Tasks
  <2>2. TaskMoves(t, u)
    BY <1>2, <2>1 DEF TaskIo, TaskMoves, history
  <2> QED
    BY <2>1, <2>2
<1>3. CASE TaskCheck(t)
  <2> DEFINE u == [t EXCEPT !.pc = "complete"]
  <2>1. u \in Tasks /\ u.proc = t.proc /\ u.req = t.req /\ u.pc = "complete"
    BY <1>1 DEF Tasks
  <2>2. TaskMoves(t, u) \/ (tasks' = tasks \ {t} /\ UNCHANGED <<slot, call, worker, channel,
                                                                requests, attaches, dispatched>>)
    BY <1>3, <2>1 DEF TaskCheck, TaskMoves, history
  <2> QED
    BY <2>1, <2>2
<1> QED
  BY <1>2, <1>3

LEMMA AttachEffect ==
  ASSUME TypeOK, NEW b \in Backends, Attach(b)
  PROVE  /\ call[b].pc = "idle" /\ attaches' = attaches + 1
         /\ slot'[b].state = "Free" /\ slot'[b].gen = slot[b].gen + 1
         /\ \A c \in Backends \ {b} : slot'[c] = slot[c]
         /\ UNCHANGED <<call, worker, channel, tasks, requests, dispatched, tail, head>>
BY Types DEF Attach, Slots, queue

LEMMA PublishEffect ==
  ASSUME TypeOK, NEW b \in Backends, Publish(b)
  PROVE  /\ call[b].pc = "idle" /\ Alive /\ requests' = requests + 1
         /\ slot'[b].state = "Submitted" /\ slot'[b].req = requests + 1 /\ slot'[b].gen = slot[b].gen
         /\ call'[b].pc = "push" /\ call'[b].req = requests + 1
         /\ \A c \in Backends \ {b} : slot'[c] = slot[c] /\ call'[c] = call[c]
         /\ UNCHANGED <<worker, channel, tasks, attaches, dispatched, tail, head>>
BY Types DEF Publish, Slots, queue

LEMMA InvalidEffect ==
  ASSUME TypeOK, QueueInv, PollInvalid
  PROVE  /\ worker.pc = "take" /\ worker'.pc = "poll" /\ worker.entry \in Backends
         /\ slot[worker.entry].state = "Submitted"
         /\ SlotTurns(worker.entry, "Completed")
         /\ slot'[worker.entry].result = slot[worker.entry].req
         /\ UNCHANGED <<call, channel, tasks, requests, attaches, dispatched>>
<1>1. worker.entry \in Backends
  BY DEF PollInvalid, QueueInv
<1>2. worker'.pc = "poll"
  BY Types DEF PollInvalid, Next1, Loops
<1> QED
  BY <1>1, <1>2, Types DEF PollInvalid, SlotTurns, Slots, history

LEMMA TakeEffect ==
  ASSUME TypeOK, QueueInv, PollTake
  PROVE  /\ worker.pc = "take" /\ worker'.pc = "send"
         /\ worker.entry \in Backends /\ worker'.entry = worker.entry
         /\ slot[worker.entry].state = "Submitted"
         /\ SlotTurns(worker.entry, "InProgress")
         /\ UNCHANGED <<call, channel, tasks, requests, attaches, dispatched>>
<1>1. worker.entry \in Backends
  BY DEF PollTake, QueueInv
<1>2. worker'.pc = "send" /\ worker'.entry = worker.entry
  BY Types DEF PollTake, Loops
<1> QED
  BY <1>1, <1>2, StateTurns DEF PollTake, history

LEMMA SendEffect ==
  ASSUME TypeOK, QueueInv, PollSend
  PROVE  /\ worker.pc = "send" /\ worker'.pc = "poll" /\ worker.entry \in Backends
         /\ Len(channel') = Len(channel) + 1 /\ Len(channel) \in Nat
         /\ \A i \in 1..Len(channel) : channel'[i] = channel[i]
         /\ channel'[Len(channel) + 1].proc = worker.entry
         /\ slot[worker.entry].req \in Requests
         /\ dispatched' = [dispatched EXCEPT ![slot[worker.entry].req] = @ + 1]
         /\ UNCHANGED <<slot, call, tasks, requests, attaches>>
<1>1. worker.entry \in Backends
  BY DEF PollSend, QueueInv
<1>2. worker'.pc = "poll"
  BY Types DEF PollSend, Next1, Loops
<1>3. slot[worker.entry].req \in Requests /\ slot[worker.entry].gen \in 0..MaxAttaches
  BY <1>1, Fields
<1> DEFINE e == [proc |-> worker.entry, gen |-> slot[worker.entry].gen]
<1>4. e \in Work /\ e.proc = worker.entry
  BY <1>1, <1>3 DEF Work
<1>5. channel \in Seq(Work) /\ channel' = Append(channel, e)
  BY Types DEF PollSend
<1> HIDE DEF e
<1>6. /\ Len(channel') = Len(channel) + 1 /\ Len(channel) \in Nat
      /\ \A i \in 1..Len(channel) : channel'[i] = channel[i]
      /\ channel'[Len(channel) + 1] = e
  BY <1>4, <1>5
<1> QED
  BY <1>1, <1>2, <1>3, <1>4, <1>6 DEF PollSend

LEMMA FullEffect ==
  ASSUME TypeOK, QueueInv, PollFull
  PROVE  /\ worker.pc = "send" /\ worker'.pc = "loop" /\ worker.entry \in Backends
         /\ SlotTurns(worker.entry, "Submitted")
         /\ UNCHANGED <<call, channel, tasks, requests, attaches, dispatched>>
<1>1. worker.entry \in Backends
  BY DEF PollFull, QueueInv
<1>2. worker'.pc = "loop"
  BY DEF PollFull, Down
<1> QED
  BY <1>1, <1>2, StateTurns DEF PollFull, history

LEMMA WorkerEffect ==
  ASSUME WorkerStart \/ WorkerStop \/ WorkerExit
  PROVE  /\ UNCHANGED <<slot, call, requests, attaches, dispatched, head, tail>>
         /\ \/ /\ worker.pc = "down" /\ worker'.pc = "loop" /\ UNCHANGED <<channel, tasks>>
               /\ \A b \in Backends : call[b].pc = "idle"
            \/ worker'.pc = "stopping" /\ UNCHANGED <<channel, tasks>>
            \/ worker'.pc = "down" /\ channel' = <<>> /\ tasks' = {}
BY DEF WorkerStart, WorkerStop, WorkerExit, Down, queue, history

LEMMA ReceiveEffect ==
  ASSUME TypeOK, Receive
  PROVE  \E u \in Tasks :
           /\ tasks' = tasks \cup {u}
           /\ Len(channel) \in Nat \ {0} /\ Len(channel') = Len(channel) - 1
           /\ \A i \in 1..Len(channel') : channel'[i] = channel[i + 1]
           /\ u.proc = channel[1].proc /\ u.req = slot[u.proc].req
           /\ UNCHANGED <<slot, call, worker, requests, attaches, dispatched, head, tail>>
<1> DEFINE w == Head(channel)
           u == [proc |-> w.proc, gen |-> w.gen, req |-> slot[w.proc].req, pc |-> "io"]
<1>1. channel \in Seq(Work) /\ channel # <<>>
  BY Types DEF Receive
<1>2. /\ Len(channel) \in Nat \ {0} /\ w = channel[1] /\ w \in Work
      /\ Len(Tail(channel)) = Len(channel) - 1
      /\ \A i \in 1..Len(Tail(channel)) : Tail(channel)[i] = channel[i + 1]
  BY <1>1
<1>3. w.proc \in Backends /\ w.gen \in 0..MaxAttaches
  BY <1>2 DEF Work
<1>4. u \in Tasks /\ u.proc = w.proc /\ u.req = slot[u.proc].req
  BY <1>3, Fields DEF Tasks
<1>5. /\ tasks' = tasks \cup {u} /\ channel' = Tail(channel)
      /\ UNCHANGED <<slot, call, worker, requests, attaches, dispatched, head, tail>>
  BY DEF Receive, queue, history
<1> HIDE DEF u, w
<1> QED
  BY <1>2, <1>4, <1>5

LEMMA CompleteEffect ==
  ASSUME TypeOK, NEW t \in tasks, TaskComplete(t)
  PROVE  /\ t \in Tasks /\ t.proc \in Backends
         /\ SlotTurns(t.proc, "Completed") /\ slot'[t.proc].result = t.req
         /\ tasks' = tasks \ {t}
         /\ UNCHANGED <<call, worker, channel, requests, attaches, dispatched, head, tail>>
<1>1. t \in Tasks
  BY Types
<1>2. t.proc \in Backends
  BY <1>1 DEF Tasks
<1> QED
  BY <1>1, <1>2, Types DEF TaskComplete, SlotTurns, Slots, queue, history

-----------------------------------------------------------------------------
(* The invariant is preserved *)

LEMMA GenStep ==
  ASSUME TypeOK, TypeOK', GenInv, QueueInv, RequestInv, Next
  PROVE  GenInv'
<1>1. CASE \E b \in Backends : Attach(b)
  BY <1>1, AttachEffect, Types, Fields DEF GenInv
<1>2. CASE /\ attaches' = attaches
           /\ \A c \in Backends : slot'[c].gen = slot[c].gen
  BY <1>2 DEF GenInv
<1>3. ASSUME NEW b \in Backends, Publish(b) PROVE GenInv'
  BY <1>2, <1>3, PublishEffect
<1>4. ASSUME NEW b \in Backends, CallStep(b) PROVE GenInv'
  BY <1>2, <1>4, CallMovesSteps, WaitSteps, EndSteps DEF CallStep, CallMoves, CallTurns, CallEnds
<1>5. CASE PollStep
  BY <1>2, <1>5, LoopSteps, InvalidEffect, TakeEffect, SendEffect, FullEffect
     DEF PollStep, LoopMoves, SlotTurns
<1>6. CASE WorkerStart \/ WorkerStop \/ WorkerExit \/ Receive
  BY <1>2, <1>6, WorkerEffect, ReceiveEffect
<1>7. CASE TaskStep
  BY <1>2, <1>7, TaskSteps, CompleteEffect DEF TaskStep, TaskMoves, SlotTurns
<1> QED
  BY <1>1, <1>3, <1>4, <1>5, <1>6, <1>7 DEF Next

LEMMA QueueStep ==
  ASSUME TypeOK, TypeOK', QueueInv, Next
  PROVE  QueueInv'
<1>1. head \in Nat /\ tail \in Nat /\ QueueSize \in Nat /\ call \in [Backends -> Calls] /\ worker \in Loops
      /\ \A b \in Backends : call[b].pos \in Nat
  BY Types, Fields, PipelineAssumption
<1>2. CASE UNCHANGED <<head, tail, call, worker>>
  BY <1>2 DEF QueueInv, Polling
<1>3. ASSUME NEW b \in Backends, UNCHANGED <<head, tail, worker>>,
             call'[b].pc \notin {"claim", "store"},
             \A c \in Backends \ {b} : call'[c] = call[c]
      PROVE  QueueInv'
  BY <1>3 DEF QueueInv, Polling
<1>4. ASSUME NEW b \in Backends,
             Attach(b) \/ Publish(b) \/ PushHead(b) \/ PushStore(b) \/ PushAgain(b) \/ PushGiveUp(b)
               \/ WaitCheck(b) \/ WaitAlive(b) \/ Release(b)
      PROVE  QueueInv'
  <2>1. CASE Attach(b)
    BY <1>2, <2>1, AttachEffect
  <2>2. CASE Publish(b)
    BY <1>3, <2>2, PublishEffect
  <2>3. CASE PushHead(b)
    BY <1>1, <1>3, <2>3 DEF PushHead, Calls, queue
  <2>4. CASE PushStore(b)
    BY <1>1, <1>3, <2>4 DEF PushStore, Calls
  <2>5. CASE PushAgain(b)
    BY <1>1, <1>3, <2>5 DEF PushAgain, Calls, queue
  <2>6. CASE PushGiveUp(b)
    BY <1>1, <1>3, <2>6 DEF PushGiveUp, NoCall, queue
  <2>7. CASE WaitCheck(b)
    BY <1>1, <1>3, <2>7 DEF WaitCheck, Calls, queue
  <2>8. CASE WaitAlive(b)
    BY <1>1, <1>3, <2>8 DEF WaitAlive, Calls, queue
  <2>9. CASE Release(b)
    BY <1>1, <1>3, <2>9 DEF Release, NoCall, queue
  <2> QED
    BY <1>4, <2>1, <2>2, <2>3, <2>4, <2>5, <2>6, <2>7, <2>8, <2>9
<1>5. ASSUME NEW b \in Backends, PushRoom(b) PROVE QueueInv'
  <2>1. UNCHANGED <<head, tail, worker>> /\ \A c \in Backends \ {b} : call'[c] = call[c]
    BY <1>1, <1>5 DEF PushRoom, queue
  <2>2. CASE call'[b].pc \notin {"claim", "store"}
    BY <1>3, <2>1, <2>2
  <2>3. CASE call'[b].pc \in {"claim", "store"}
    <3>1. call'[b].pc = "claim" /\ call'[b].pos = call[b].pos /\ call[b].pos - tail < QueueSize
      BY <1>1, <1>5, <2>3 DEF PushRoom, Calls
    <3> QED
      BY <2>1, <3>1 DEF QueueInv, Polling
  <2> QED
    BY <2>2, <2>3
<1>6. ASSUME NEW b \in Backends, PushClaim(b) PROVE QueueInv'
  <2>1. head' = head + 1 /\ UNCHANGED <<tail, worker>> /\ \A c \in Backends \ {b} : call'[c] = call[c]
    BY <1>1, <1>6 DEF PushClaim
  <2>2. call'[b].pc = "store" /\ call'[b].pos = head
    BY <1>1, <1>6 DEF PushClaim, Calls
  <2> QED
    BY <1>1, <2>1, <2>2, Fields DEF QueueInv, Polling
<1>7. ASSUME UNCHANGED <<head, call>>, tail' \in Nat, tail <= tail', worker'.pc \notin Polling
      PROVE  QueueInv'
  BY <1>1, <1>7 DEF QueueInv, Polling
<1>8. CASE PollEnd \/ PollFull
  <2>1. tail' = worker.tail /\ tail <= worker.tail /\ worker.tail \in Nat /\ UNCHANGED <<head, call>>
    BY <1>8, Fields DEF PollEnd, PollFull, QueueInv, Polling
  <2>2. worker'.pc = "loop"
    BY <1>8 DEF PollEnd, PollFull, Down
  <2> QED
    BY <1>7, <2>1, <2>2 DEF Polling
<1>9. CASE WorkerStart \/ WorkerStop \/ WorkerExit
  <2>1. UNCHANGED <<head, tail, call>> /\ worker'.pc \notin Polling
    BY <1>9 DEF WorkerStart, WorkerStop, WorkerExit, Down, Polling, queue
  <2> QED
    BY <1>1, <1>7, <2>1
<1>10. CASE PollBegin
  <2>1. /\ worker'.pc = "poll" /\ worker'.tail = tail /\ worker'.head = head
        /\ UNCHANGED <<head, tail, call>>
    BY <1>1, <1>10 DEF PollBegin, Loops, queue
  <2> QED
    BY <1>1, <2>1, Types DEF QueueInv, Polling
<1>11. CASE PollLoad
  <2>1. worker.tail % QueueSize \in 0..(QueueSize - 1)
    BY Fields, Numbers
  <2>2. entries[worker.tail % QueueSize] \in Backends
    BY <1>11, <2>1, Types DEF PollLoad
  <2>3. /\ worker.pc = "poll" /\ worker.tail # worker.head
        /\ worker'.pc = "take" /\ worker'.tail = worker.tail /\ worker'.head = worker.head
        /\ worker'.entry = entries[worker.tail % QueueSize]
        /\ UNCHANGED <<head, tail, call>>
    BY <1>1, <1>11 DEF PollLoad, Loops, queue
  <2>4. worker'.entry \in Backends
    BY <2>2, <2>3
  <2>5. worker.tail \in Nat /\ worker.head \in Nat
    BY Fields
  <2> QED
    BY <1>1, <2>3, <2>4, <2>5 DEF QueueInv, Polling
<1>12. CASE PollSkip \/ PollInvalid \/ PollSend
  <2>1. /\ worker.pc \in {"take", "send"}
        /\ worker'.pc = "poll" /\ worker'.tail = worker.tail + 1 /\ worker'.head = worker.head
        /\ UNCHANGED <<head, tail, call>>
    BY <1>1, <1>12 DEF PollSkip, PollInvalid, PollSend, Next1, Loops
  <2>2. worker.tail \in Nat /\ worker.head \in Nat
    BY Fields
  <2> QED
    BY <1>1, <2>1, <2>2 DEF QueueInv, Polling
<1>13. CASE PollTake
  <2>1. /\ worker.pc = "take" /\ worker'.pc = "send" /\ worker'.tail = worker.tail
        /\ worker'.head = worker.head /\ worker'.entry = worker.entry
        /\ UNCHANGED <<head, tail, call>>
    BY <1>1, <1>13 DEF PollTake, Loops, queue
  <2> QED
    BY <2>1 DEF QueueInv, Polling
<1>14. CASE Receive \/ TaskStep
  BY <1>2, <1>14 DEF Receive, TaskStep, TaskIo, TaskCheck, TaskComplete, queue
<1> QED
  BY <1>4, <1>5, <1>6, <1>8, <1>9, <1>10, <1>11, <1>12, <1>13, <1>14 DEF Next, CallStep, PollStep

\* Whatever the worker or a task holds belongs to a backend.
LEMMA Holders ==
  ASSUME TypeOK
  PROVE  /\ \A i \in 1..Len(channel) : channel[i].proc \in Backends
         /\ \A t \in tasks : t \in Tasks /\ t.proc \in Backends
         /\ Len(channel) \in Nat
<1>1. channel \in Seq(Work) /\ tasks \subseteq Tasks
  BY Types
<1>2. \A i \in 1..Len(channel) : channel[i] \in Work
  BY <1>1
<1> QED
  BY <1>1, <1>2 DEF Work, Tasks

LEMMA HolderStep ==
  ASSUME TypeOK, QueueInv, HolderInv, RequestInv, DispatchInv, Next
  PROVE  HolderInv'
<1> USE DEF Alive
<1>1. ASSUME NEW b \in Backends, Attach(b) PROVE HolderInv'
  BY <1>1, AttachEffect, Holders DEF HolderInv, Busy, Waiting, QueueInv
<1>2. ASSUME NEW b \in Backends, Publish(b) PROVE HolderInv'
  BY <1>2, PublishEffect, Holders DEF HolderInv, Busy, Waiting, QueueInv
<1>3. ASSUME NEW b \in Backends, CallMoves(b) PROVE HolderInv'
  BY <1>3, Holders DEF CallMoves, HolderInv, Busy, QueueInv
<1>4. ASSUME NEW b \in Backends, CallTurns(b) PROVE HolderInv'
  BY <1>4, Holders DEF CallTurns, HolderInv, Busy, QueueInv
<1>5. ASSUME NEW b \in Backends, CallEnds(b) PROVE HolderInv'
  BY <1>5, Holders DEF CallEnds, HolderInv, Busy, QueueInv, Waiting
<1>6. CASE LoopMoves
  BY <1>6 DEF LoopMoves, HolderInv, Busy
<1>7. CASE PollInvalid
  BY <1>7, InvalidEffect, Holders DEF HolderInv, Busy, SlotTurns
<1>8. CASE PollTake
  <2>1. call[worker.entry].pc \in Waiting
    BY <1>8, TakeEffect, Types DEF DispatchInv, RequestInv, Active, Calls, Waiting
  <2> QED
    BY <1>8, <2>1, TakeEffect, Holders DEF HolderInv, Busy, SlotTurns
<1>9. CASE PollSend
  <2>1. Alive /\ Busy(worker.entry)
    BY <1>9 DEF PollSend, HolderInv
  <2> QED
    BY <1>9, <2>1, SendEffect, Holders DEF HolderInv, Busy
<1>10. CASE PollFull
  BY <1>10, FullEffect, Holders DEF HolderInv, Busy, SlotTurns
<1>11. CASE WorkerStart \/ WorkerStop \/ WorkerExit
  BY <1>11, WorkerEffect DEF HolderInv, RequestInv
<1>12. CASE Receive
  <2>1. PICK u \in Tasks :
           /\ tasks' = tasks \cup {u}
           /\ Len(channel) \in Nat \ {0} /\ Len(channel') = Len(channel) - 1
           /\ \A i \in 1..Len(channel') : channel'[i] = channel[i + 1]
           /\ u.proc = channel[1].proc /\ u.req = slot[u.proc].req
           /\ UNCHANGED <<slot, call, worker, requests, attaches, dispatched, head, tail>>
    BY <1>12, ReceiveEffect
  <2>2. CASE ~Alive
    BY <2>1, <2>2 DEF HolderInv
  <2>3. CASE Alive
    <3>1. \A i \in 1..Len(channel') : i + 1 \in 1..Len(channel) /\ i + 1 # 1 /\ channel'[i] = channel[i + 1]
      BY <2>1
    <3>2. 1 \in 1..Len(channel) /\ Busy(u.proc)
      BY <2>1, <2>3 DEF HolderInv
    <3>3. /\ worker.pc = "send" => Busy(worker.entry)
          /\ \A i \in 1..Len(channel') : Busy(channel[i + 1].proc)
          /\ \A t \in tasks' : Busy(t.proc)
      BY <2>1, <2>3, <3>1, <3>2 DEF HolderInv
    <3>4. \A i, j \in 1..Len(channel') : channel'[i].proc = channel'[j].proc => i = j
      <4> SUFFICES ASSUME NEW i \in 1..Len(channel'), NEW j \in 1..Len(channel'),
                          channel'[i].proc = channel'[j].proc
                   PROVE  i = j
        OBVIOUS
      <4>1. i + 1 = j + 1
        BY <2>3, <3>1 DEF HolderInv
      <4> QED
        BY <4>1
    <3>5. \A i \in 1..Len(channel') : u.proc # channel'[i].proc
      BY <2>1, <2>3, <3>1, <3>2 DEF HolderInv
    <3>6. \A t \in tasks : t.proc # u.proc
      BY <2>1, <2>3, <3>2 DEF HolderInv
    <3>7. \A t \in tasks, i \in 1..Len(channel') : t.proc # channel'[i].proc
      BY <2>3, <3>1 DEF HolderInv
    <3>8. worker.pc = "send" => /\ \A t \in tasks : t.proc # worker.entry
                                /\ \A i \in 1..Len(channel') : channel'[i].proc # worker.entry
                                /\ u.proc # worker.entry
      BY <2>1, <2>3, <3>1, <3>2 DEF HolderInv
    <3> QED
      BY <2>1, <3>1, <3>3, <3>4, <3>5, <3>6, <3>7, <3>8 DEF HolderInv, Busy
  <2> QED
    BY <2>2, <2>3
<1>13. ASSUME NEW t \in tasks, NEW u \in Tasks, TaskMoves(t, u) PROVE HolderInv'
  BY <1>13, Holders DEF TaskMoves, HolderInv, Busy
<1>14. ASSUME NEW t \in tasks, tasks' = tasks \ {t}, UNCHANGED <<slot, call, worker, channel>> PROVE HolderInv'
  BY <1>14 DEF HolderInv, Busy
<1>15. ASSUME NEW t \in tasks, TaskComplete(t) PROVE HolderInv'
  BY <1>15, CompleteEffect, Holders DEF HolderInv, Busy, SlotTurns, QueueInv
<1>16. ASSUME NEW b \in Backends, CallStep(b) PROVE HolderInv'
  BY <1>3, <1>4, <1>5, <1>16, CallMovesSteps, WaitSteps, EndSteps DEF CallStep
<1>17. CASE PollStep
  BY <1>6, <1>7, <1>8, <1>9, <1>10, <1>17, LoopSteps DEF PollStep
<1>18. CASE TaskStep
  BY <1>13, <1>14, <1>15, <1>18, TaskSteps DEF TaskStep
<1> QED
  BY <1>1, <1>2, <1>11, <1>12, <1>16, <1>17, <1>18 DEF Next

LEMMA RequestStep ==
  ASSUME TypeOK, QueueInv, HolderInv, RequestInv, DispatchInv, Next
  PROVE  RequestInv'
<1> USE DEF Alive, Active
<1>1. ASSUME NEW b \in Backends, Attach(b) PROVE RequestInv'
  BY <1>1, AttachEffect, Holders DEF RequestInv
<1>2. ASSUME NEW b \in Backends, Publish(b) PROVE RequestInv'
  BY <1>2, PublishEffect, Holders DEF RequestInv, HolderInv, Busy, Waiting
<1>3. ASSUME NEW b \in Backends, CallMoves(b) PROVE RequestInv'
  BY <1>3, Holders DEF CallMoves, RequestInv, Waiting
<1>4. ASSUME NEW b \in Backends, CallTurns(b) PROVE RequestInv'
  BY <1>4, Holders DEF CallTurns, RequestInv, Waiting
<1>5. ASSUME NEW b \in Backends, CallEnds(b) PROVE RequestInv'
  BY <1>5, Holders DEF CallEnds, RequestInv, NoCall
<1>6. CASE LoopMoves
  BY <1>6 DEF LoopMoves, RequestInv
<1>7. CASE PollInvalid
  BY <1>7, InvalidEffect, Holders DEF RequestInv, SlotTurns
<1>8. CASE PollTake
  BY <1>8, TakeEffect, Holders DEF RequestInv, SlotTurns
<1>9. CASE PollSend
  BY <1>9, SendEffect DEF RequestInv
<1>10. CASE PollFull
  BY <1>10, FullEffect, Holders DEF RequestInv, SlotTurns, HolderInv, Busy
<1>11. CASE WorkerStart \/ WorkerStop \/ WorkerExit
  BY <1>11, WorkerEffect DEF RequestInv
<1>12. CASE Receive
  <2>1. PICK u \in Tasks :
           /\ tasks' = tasks \cup {u}
           /\ Len(channel) \in Nat \ {0} /\ Len(channel') = Len(channel) - 1
           /\ \A i \in 1..Len(channel') : channel'[i] = channel[i + 1]
           /\ u.proc = channel[1].proc /\ u.req = slot[u.proc].req
           /\ UNCHANGED <<slot, call, worker, requests, attaches, dispatched, head, tail>>
    BY <1>12, ReceiveEffect
  <2>2. channel # <<>>
    BY <1>12 DEF Receive
  <2> QED
    BY <2>1, <2>2, Holders DEF RequestInv
<1>13. ASSUME NEW t \in tasks, NEW u \in Tasks, TaskMoves(t, u) PROVE RequestInv'
  BY <1>13, Holders DEF TaskMoves, RequestInv
<1>14. ASSUME NEW t \in tasks, tasks' = tasks \ {t}, UNCHANGED <<slot, call, worker, channel>> PROVE RequestInv'
  BY <1>14 DEF RequestInv
<1>15. ASSUME NEW t \in tasks, TaskComplete(t) PROVE RequestInv'
  BY <1>15, CompleteEffect, Holders DEF RequestInv, SlotTurns
<1>16. ASSUME NEW b \in Backends, CallStep(b) PROVE RequestInv'
  BY <1>3, <1>4, <1>5, <1>16, CallMovesSteps, WaitSteps, EndSteps DEF CallStep
<1>17. CASE PollStep
  BY <1>6, <1>7, <1>8, <1>9, <1>10, <1>17, LoopSteps DEF PollStep
<1>18. CASE TaskStep
  BY <1>13, <1>14, <1>15, <1>18, TaskSteps DEF TaskStep
<1> QED
  BY <1>1, <1>2, <1>11, <1>12, <1>16, <1>17, <1>18 DEF Next

LEMMA DispatchStep ==
  ASSUME TypeOK, QueueInv, HolderInv, RequestInv, DispatchInv, Next
  PROVE  DispatchInv'
<1> USE DEF Alive, Active
<1>0. /\ requests \in Nat /\ dispatched \in [Requests -> Nat] /\ \A r \in Requests : r \in Nat
      /\ \A b \in Backends : call[b].req \in Requests /\ call[b].req \in Nat
  BY Types, Fields, Numbers
<1>1. ASSUME NEW b \in Backends, Attach(b) PROVE DispatchInv'
  BY <1>0, <1>1, AttachEffect DEF DispatchInv, DispatchedOnce
<1>2. ASSUME NEW b \in Backends, Publish(b) PROVE DispatchInv'
  <2>1. requests + 1 \in Requests
    BY <1>0, <1>2, PipelineAssumption DEF Publish, Requests
  <2>2. dispatched[requests + 1] = 0
    BY <1>0, <2>1 DEF DispatchInv
  <2>3. worker.pc = "send" => worker.entry # b
    BY <1>2, PublishEffect DEF HolderInv, Busy, Waiting
  <2> QED
    BY <1>0, <1>2, <2>1, <2>2, <2>3, PublishEffect DEF DispatchInv, DispatchedOnce, QueueInv
<1>3. ASSUME NEW b \in Backends, CallMoves(b) PROVE DispatchInv'
  BY <1>3 DEF CallMoves, DispatchInv, DispatchedOnce, Waiting, QueueInv
<1>4. ASSUME NEW b \in Backends, CallTurns(b) PROVE DispatchInv'
  BY <1>4 DEF CallTurns, DispatchInv, DispatchedOnce, Waiting, QueueInv
<1>5. ASSUME NEW b \in Backends, CallEnds(b) PROVE DispatchInv'
  <2>1. worker.pc = "send" => worker.entry # b /\ worker.entry \in Backends
    BY <1>5 DEF CallEnds, HolderInv, Busy, Waiting, QueueInv
  <2> QED
    BY <1>0, <1>5, <2>1 DEF CallEnds, DispatchInv, DispatchedOnce, NoCall
<1>6. CASE LoopMoves
  BY <1>6 DEF LoopMoves, DispatchInv, DispatchedOnce
<1>7. CASE PollInvalid
  BY <1>7, InvalidEffect DEF DispatchInv, DispatchedOnce, SlotTurns
<1>8. CASE PollTake
  BY <1>8, TakeEffect DEF DispatchInv, DispatchedOnce, SlotTurns
<1>9. CASE PollSend
  <2> DEFINE e == worker.entry
  <2>1. Busy(e) /\ e \in Backends /\ worker.pc = "send" /\ worker'.pc = "poll"
    BY <1>9, SendEffect DEF HolderInv
  <2>2. slot[e].req = call[e].req /\ call[e].req \in Requests /\ dispatched[call[e].req] = 0
    BY <1>0, <2>1 DEF RequestInv, DispatchInv, Busy, Waiting
  <2>3. /\ dispatched'[call[e].req] = 1
        /\ \A r \in Requests \ {call[e].req} : dispatched'[r] = dispatched[r]
    BY <1>0, <1>9, <2>2, SendEffect
  <2>4. call[e].req <= requests
    BY <2>1 DEF DispatchInv
  <2>5. \A b \in Backends : slot[b].state = "Submitted" => b # e
    BY <2>1 DEF Busy
  <2> QED
    BY <1>0, <1>9, <2>1, <2>2, <2>3, <2>4, <2>5, SendEffect DEF DispatchInv, DispatchedOnce, Busy, Waiting
<1>10. CASE PollFull
  <2>1. Busy(worker.entry)
    BY <1>10, FullEffect DEF HolderInv
  <2> QED
    BY <1>10, <2>1, FullEffect DEF DispatchInv, DispatchedOnce, SlotTurns, Busy, Waiting
<1>11. CASE WorkerStart \/ WorkerStop \/ WorkerExit
  BY <1>11, WorkerEffect DEF DispatchInv, DispatchedOnce
<1>12. CASE Receive
  BY <1>12, ReceiveEffect DEF DispatchInv, DispatchedOnce
<1>13. ASSUME UNCHANGED <<slot, call, worker, requests, dispatched>> PROVE DispatchInv'
  BY <1>13 DEF DispatchInv, DispatchedOnce
<1>14. ASSUME NEW t \in tasks, TaskComplete(t) PROVE DispatchInv'
  BY <1>14, CompleteEffect DEF DispatchInv, DispatchedOnce, SlotTurns, QueueInv
<1>15. ASSUME NEW b \in Backends, CallStep(b) PROVE DispatchInv'
  BY <1>3, <1>4, <1>5, <1>15, CallMovesSteps, WaitSteps, EndSteps DEF CallStep
<1>16. CASE PollStep
  BY <1>6, <1>7, <1>8, <1>9, <1>10, <1>16, LoopSteps DEF PollStep
<1>17. CASE TaskStep
  BY <1>13, <1>14, <1>17, TaskSteps DEF TaskStep, TaskMoves
<1> QED
  BY <1>1, <1>2, <1>11, <1>12, <1>15, <1>16, <1>17 DEF Next

-----------------------------------------------------------------------------
(* Theorems *)

LEMMA PipelineInit == Init => PipelineInv
<1> SUFFICES ASSUME Init PROVE PipelineInv
  OBVIOUS
<1>1. /\ \A b \in Backends : slot[b] = Empty /\ call[b] = NoCall
      /\ slot \in [Backends -> {Empty}] /\ call \in [Backends -> {NoCall}]
      /\ worker.pc = "down" /\ worker \in Loops
  BY DEF Init, Down, Loops
<1>2. Empty \in Slots /\ NoCall \in Calls /\ 0 \in 0..MaxAttaches /\ 0 \in 0..MaxStops /\ 0 \in Requests
  BY Numbers, PipelineAssumption DEF Empty, Slots
<1>3. TypeOK
  <2>1. slot \in [Backends -> Slots] /\ call \in [Backends -> Calls]
    BY <1>1, <1>2
  <2>2. /\ entries \in [0..(QueueSize - 1) -> Backends \cup {Nobody}]
        /\ dispatched \in [Requests -> Nat] /\ channel \in Seq(Work) /\ tasks \subseteq Tasks
    BY DEF Init
  <2>3. head = 0 /\ tail = 0 /\ requests = 0 /\ stops = 0 /\ attaches = 0 /\ overrun = FALSE
    BY DEF Init
  <2>4. head = 0 /\ tail = 0 /\ QueueSize \in Nat
    BY PipelineAssumption DEF Init
  <2>5. head - tail <= QueueSize /\ tail <= head
    BY <2>4
  <2> QED
    BY <1>1, <1>2, <2>1, <2>2, <2>3, <2>5 DEF TypeOK, Loops
<1>4. GenInv /\ QueueInv /\ HolderInv
  BY <1>1 DEF Init, GenInv, QueueInv, HolderInv, Empty, NoCall, Polling, Alive
<1>5. RequestInv /\ DispatchInv
  BY <1>1 DEF Init, RequestInv, DispatchInv, DispatchedOnce, Active, Empty, NoCall, Alive
<1> QED
  BY <1>3, <1>4, <1>5 DEF PipelineInv

LEMMA PipelineStep == PipelineInv /\ [Next]_vars => PipelineInv'
<1> SUFFICES ASSUME PipelineInv, [Next]_vars PROVE PipelineInv'
  OBVIOUS
<1>1. CASE Next
  <2>1. TypeOK'
    BY <1>1, TypeStep DEF PipelineInv
  <2> QED
    BY <1>1, <2>1, GenStep, QueueStep, HolderStep, RequestStep, DispatchStep DEF PipelineInv
<1>2. CASE UNCHANGED vars
  BY <1>2 DEF vars, queue, history, PipelineInv, TypeOK, GenInv, QueueInv, HolderInv, RequestInv,
     DispatchInv, DispatchedOnce, Busy, Active, Alive
<1> QED
  BY <1>1, <1>2

LEMMA PipelineInvariant == Spec => []PipelineInv
BY PipelineInit, PipelineStep, PTL DEF Spec

\* Shapes, and the bound of the submit queue (push): without a race for its last
\* entry it never holds more requests than it has entries.
THEOREM PipelineTypeCorrect == Spec => []TypeOK
<1>1. PipelineInv => TypeOK
  BY DEF PipelineInv
<1> QED
  BY <1>1, PipelineInvariant, PTL

\* A backend reads the result of its own, present request (submit_and_wait_raw,
\* process_io_request), however many backends, requests and restarts there are.
THEOREM PipelineAnswers == Spec => []AnswersRight
<1>1. PipelineInv => AnswersRight
  BY DEF PipelineInv, RequestInv, AnswersRight, Active
<1> QED
  BY <1>1, PipelineInvariant, PTL

\* poll_submit_queue hands a request to Tokio at most once, whatever is in the queue.
THEOREM PipelineDispatches == Spec => []DispatchedOnce
<1>1. PipelineInv => DispatchedOnce
  BY DEF PipelineInv, DispatchInv
<1> QED
  BY <1>1, PipelineInvariant, PTL

\* process_io_request uses a buffer only while its backend waits for it, until the
\* worker stops.
THEOREM PipelineBuffers == Spec => []BufferOwned
<1>1. PipelineInv => BufferOwned
  <2> SUFFICES ASSUME PipelineInv, worker.pc # "stopping", NEW t \in tasks
               PROVE  call[t.proc].pc # "idle" /\ call[t.proc].req = t.req
    BY DEF BufferOwned
  <2>1. Alive /\ TypeOK /\ HolderInv /\ RequestInv
    BY DEF PipelineInv, RequestInv, Alive
  <2>2. Busy(t.proc) /\ t.proc \in Backends
    BY <2>1, Holders DEF HolderInv
  <2> QED
    BY <2>1, <2>2 DEF RequestInv, Busy, Waiting, Active
<1> QED
  BY <1>1, PipelineInvariant, PTL
=============================================================================

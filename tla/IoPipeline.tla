------------------------------ MODULE IoPipeline ------------------------------
(***************************************************************************)
(* The I/O pipeline between backends and the background worker             *)
(* (core/src/io/io_control.rs, smgr/src/pipeline.rs, worker/src).          *)
(*                                                                         *)
(* A backend fills a slot of its pool, publishes it, pushes it to the      *)
(* submit queue and waits.  The worker's main loop pops the queue and      *)
(* sends the request through a bounded channel to Tokio, where a task      *)
(* performs it, writes the result into the slot and marks it completed.    *)
(* A backend that finds the worker gone gives up.                          *)
(*                                                                         *)
(* An action is one access to shared memory, or several that no other      *)
(* process can tell from one.  A backend waits for one request at a time,  *)
(* so it always claims the same slot of its pool.  Latches are left out:   *)
(* every wait that is reached has a timeout, they only end it sooner.      *)
(***************************************************************************)
EXTENDS Integers, Sequences, FiniteSets

CONSTANTS
  Backends,     \* proc numbers
  Nobody,       \* a queue entry that is 0: not written yet
  QueueSize,    \* SUBMIT_QUEUE_SIZE
  ChannelSize,  \* of the dispatcher's channel
  MaxRequests,  \* bound: requests
  Invalid,      \* the requests that validate rejects
  MaxStops,     \* bound: how often the worker ends
  MaxAttaches   \* bound: how often a proc number is given to a new backend

ASSUME PipelineAssumption ==
  /\ IsFiniteSet(Backends)
  /\ Nobody \notin Backends
  /\ QueueSize \in Nat \ {0}
  /\ ChannelSize \in Nat \ {0}
  /\ MaxRequests \in Nat
  /\ Invalid \subseteq 1..MaxRequests
  /\ MaxStops \in Nat
  /\ MaxAttaches \in Nat

VARIABLES
  slot,       \* of each backend: state, request, generation and result
  head, tail, entries,   \* SubmitQueue
  call,       \* submit_and_wait_raw of each backend
  worker,     \* the main loop, with the locals of poll_submit_queue
  channel,    \* from the dispatcher to io_worker_loop
  tasks,      \* process_io_request
  \* history
  requests, stops, attaches,
  dispatched, \* how often each request was sent to Tokio
  overrun     \* a backend has claimed a position that was free when it looked

queue   == <<head, tail, entries>>
history == <<requests, stops, attaches, dispatched, overrun>>
vars    == <<slot, queue, call, worker, channel, tasks, history>>

Requests == 0..MaxRequests     \* 0: none
Empty    == [state |-> "Free", req |-> 0, gen |-> 0, result |-> 0]
NoCall   == [pc |-> "idle", req |-> 0, pos |-> 0, try |-> 1]
Down     == [pc |-> "down", head |-> 0, tail |-> 0, entry |-> Nobody]

Init ==
  /\ slot = [b \in Backends |-> Empty]
  /\ head = 0
  /\ tail = 0
  /\ entries = [i \in 0..(QueueSize - 1) |-> Nobody]
  /\ call = [b \in Backends |-> NoCall]
  /\ worker = Down
  /\ channel = <<>>
  /\ tasks = {}
  /\ requests = 0
  /\ stops = 0
  /\ attaches = 0
  /\ dispatched = [r \in Requests |-> 0]
  /\ overrun = FALSE

\* is_worker_alive: the pid is 0 from the end of the main loop on, and it is the pid
\* of no process once the worker has ended.
Alive == worker.pc \notin {"down", "stopping"}

SetState(b, s) == slot' = [slot EXCEPT ![b].state = s]

-----------------------------------------------------------------------------
(* Backends *)

\* tiko_init of a new backend with this proc number.
Attach(b) ==
  /\ call[b].pc = "idle"
  /\ attaches < MaxAttaches
  /\ attaches' = attaches + 1
  /\ slot' = [slot EXCEPT ![b] = [@ EXCEPT !.state = "Free", !.gen = slot[b].gen + 1, !.result = 0]]
  /\ UNCHANGED <<queue, call, worker, channel, tasks, requests, stops, dispatched, overrun>>

\* use_pipeline, then claim, fill and publish.  Without a worker the backend
\* does its I/O itself.
Publish(b) ==
  /\ call[b].pc = "idle"
  /\ Alive
  /\ requests < MaxRequests
  /\ requests' = requests + 1
  /\ slot' = [slot EXCEPT ![b] = [@ EXCEPT !.state = "Submitted", !.req = requests + 1, !.result = 0]]
  /\ call' = [call EXCEPT ![b] = [pc |-> "push", req |-> requests + 1, pos |-> 0, try |-> 1]]
  /\ UNCHANGED <<queue, worker, channel, tasks, stops, attaches, dispatched, overrun>>

\* push: the head is loaded, ...
PushHead(b) ==
  /\ call[b].pc = "push"
  /\ call' = [call EXCEPT ![b].pc = "room", ![b].pos = head]
  /\ UNCHANGED <<slot, queue, worker, channel, tasks, history>>

\* Mutant: one entry too many.
PushRoomOffByOne(b) ==
  LET used == call[b].pos - tail
      room == 0 <= used /\ used <= QueueSize
  IN /\ call[b].pc = "room"
     /\ \/ room /\ call' = [call EXCEPT ![b].pc = "claim"]
        \/ ~room /\ call[b].try = 1 /\ call' = [call EXCEPT ![b].pc = "full"]
        \/ ~room /\ call[b].try = 2 /\ call' = [call EXCEPT ![b] = [@ EXCEPT !.pc = "push", !.pos = 0, !.try = 1]]
     /\ UNCHANGED <<slot, queue, worker, channel, tasks, history>>

\* ... then the tail, which may have passed it: the wrapped difference is large.
\* Only the first of two attempts that fail is followed by a look at the worker.
PushRoom(b) ==
  LET used == call[b].pos - tail
      room == 0 <= used /\ used < QueueSize
  IN /\ call[b].pc = "room"
     /\ \/ room /\ call' = [call EXCEPT ![b].pc = "claim"]
        \/ ~room /\ call[b].try = 1 /\ call' = [call EXCEPT ![b].pc = "full"]
        \/ ~room /\ call[b].try = 2 /\ call' = [call EXCEPT ![b] = [@ EXCEPT !.pc = "push", !.pos = 0, !.try = 1]]
     /\ UNCHANGED <<slot, queue, worker, channel, tasks, history>>

PushClaim(b) ==
  /\ call[b].pc = "claim"
  /\ head' = head + 1
  /\ overrun' = (overrun \/ (head # call[b].pos /\ head - tail >= QueueSize))
  /\ call' = [call EXCEPT ![b].pc = "store", ![b].pos = head]
  /\ UNCHANGED <<slot, tail, entries, worker, channel, tasks, requests, stops, attaches, dispatched>>

PushStore(b) ==
  /\ call[b].pc = "store"
  /\ entries' = [entries EXCEPT ![call[b].pos % QueueSize] = b]
  /\ call' = [call EXCEPT ![b] = [@ EXCEPT !.pc = "wait", !.pos = 0, !.try = 1]]
  /\ UNCHANGED <<slot, head, tail, worker, channel, tasks, history>>

\* The queue is full: a second attempt, if there is a worker.
PushAgain(b) ==
  /\ call[b].pc = "full"
  /\ Alive
  /\ call' = [call EXCEPT ![b] = [@ EXCEPT !.pc = "push", !.pos = 0, !.try = 2]]
  /\ UNCHANGED <<slot, queue, worker, channel, tasks, history>>

PushGiveUp(b) ==
  /\ call[b].pc = "full"
  /\ ~Alive
  /\ SetState(b, "Free")
  /\ call' = [call EXCEPT ![b] = NoCall]
  /\ UNCHANGED <<queue, worker, channel, tasks, history>>

\* Mutant: a request that is being processed is taken for completed.
WaitCheckEarly(b) ==
  /\ call[b].pc = "wait"
  /\ call' = [call EXCEPT ![b].pc = IF slot[b].state \in {"InProgress", "Completed"} THEN "read" ELSE "check"]
  /\ UNCHANGED <<slot, queue, worker, channel, tasks, history>>

WaitCheck(b) ==
  /\ call[b].pc = "wait"
  /\ call' = [call EXCEPT ![b].pc = IF slot[b].state = "Completed" THEN "read" ELSE "check"]
  /\ UNCHANGED <<slot, queue, worker, channel, tasks, history>>

\* Mutant: the backend gives up when its wait times out.
WaitAliveTimeout(b) ==
  /\ call[b].pc = "check"
  /\ \E pc \in {"wait", "give_up"} : call' = [call EXCEPT ![b].pc = pc]
  /\ UNCHANGED <<slot, queue, worker, channel, tasks, history>>

WaitAlive(b) ==
  /\ call[b].pc = "check"
  /\ call' = [call EXCEPT ![b].pc = IF Alive THEN "wait" ELSE "give_up"]
  /\ UNCHANGED <<slot, queue, worker, channel, tasks, history>>

\* The slot is released without a result (GiveUp) or with it; the call ends.
Release(b) ==
  /\ call[b].pc \in {"give_up", "read"}
  /\ SetState(b, "Free")
  /\ call' = [call EXCEPT ![b] = NoCall]
  /\ UNCHANGED <<queue, worker, channel, tasks, history>>

-----------------------------------------------------------------------------
(* The worker's main loop *)

\* PostgreSQL starts the worker, and starts it again 60 seconds after it has ended
\* with an error; by then every backend has looked at its pid (every second).
WorkerStart ==
  /\ worker.pc = "down"
  /\ \A b \in Backends : call[b].pc = "idle"
  /\ worker' = [Down EXCEPT !.pc = "loop"]
  /\ UNCHANGED <<slot, queue, call, channel, tasks, history>>

\* SIGTERM: pid and latch are cleared; the process, and Tokio with it, lives on for
\* a while.
WorkerStop ==
  /\ worker.pc = "loop"
  /\ stops < MaxStops
  /\ stops' = stops + 1
  /\ worker' = [Down EXCEPT !.pc = "stopping"]
  /\ UNCHANGED <<slot, queue, call, channel, tasks, requests, attaches, dispatched, overrun>>

\* The process ends: after SIGTERM, or with an error outside the polling.
WorkerExit ==
  /\ \/ worker.pc = "stopping" /\ UNCHANGED stops
     \/ worker.pc = "loop" /\ stops < MaxStops /\ stops' = stops + 1
  /\ worker' = Down
  /\ channel' = <<>>
  /\ tasks' = {}
  /\ UNCHANGED <<slot, queue, call, requests, attaches, dispatched, overrun>>

PollBegin ==
  /\ worker.pc = "loop"
  /\ worker' = [worker EXCEPT !.pc = "poll", !.head = head, !.tail = tail]
  /\ UNCHANGED <<slot, queue, call, channel, tasks, history>>

Next1 == [worker EXCEPT !.pc = "poll", !.tail = @ + 1, !.entry = Nobody]
Clear == entries' = [entries EXCEPT ![worker.tail % QueueSize] = Nobody]

\* The next entry, if it is written.
PollLoad ==
  LET e == entries[worker.tail % QueueSize]
  IN /\ worker.pc = "poll"
     /\ worker.tail # worker.head
     /\ e # Nobody
     /\ worker' = [worker EXCEPT !.pc = "take", !.entry = e]
     /\ UNCHANGED <<slot, queue, call, channel, tasks, history>>

\* No entry is left, or the next one is not written yet.
PollEnd ==
  /\ worker.pc = "poll"
  /\ worker.tail = worker.head \/ entries[worker.tail % QueueSize] = Nobody
  /\ tail' = worker.tail
  /\ worker' = [Down EXCEPT !.pc = "loop"]
  /\ UNCHANGED <<slot, head, entries, call, channel, tasks, history>>

\* An entry left behind by a backend that gave up.
PollSkip ==
  /\ worker.pc = "take"
  /\ slot[worker.entry].state # "Submitted"
  /\ Clear
  /\ worker' = Next1
  /\ UNCHANGED <<slot, head, tail, call, channel, tasks, history>>

\* validate fails: fail_with_error.
PollInvalid ==
  LET b == worker.entry
  IN /\ worker.pc = "take"
     /\ slot[b].state = "Submitted" /\ slot[b].req \in Invalid
     /\ slot' = [slot EXCEPT ![b] = [@ EXCEPT !.state = "Completed", !.result = slot[b].req]]
     /\ Clear
     /\ worker' = Next1
     /\ UNCHANGED <<head, tail, call, channel, tasks, history>>

\* Mutant: the state is not compared.
PollTakeAny ==
  LET b == worker.entry
  IN /\ worker.pc = "take"
     /\ slot[b].req \notin Invalid
     /\ SetState(b, "InProgress")
     /\ worker' = [worker EXCEPT !.pc = "send"]
     /\ UNCHANGED <<queue, call, channel, tasks, history>>

\* try_start_processing and validate.
PollTake ==
  LET b == worker.entry
  IN /\ worker.pc = "take"
     /\ slot[b].state = "Submitted" /\ slot[b].req \notin Invalid
     /\ SetState(b, "InProgress")
     /\ worker' = [worker EXCEPT !.pc = "send"]
     /\ UNCHANGED <<queue, call, channel, tasks, history>>

PollSend ==
  LET b == worker.entry
  IN /\ worker.pc = "send"
     /\ Len(channel) < ChannelSize
     /\ channel' = Append(channel, [proc |-> b, gen |-> slot[b].gen])
     /\ dispatched' = [dispatched EXCEPT ![slot[b].req] = @ + 1]
     /\ Clear
     /\ worker' = Next1
     /\ UNCHANGED <<slot, head, tail, call, tasks, requests, stops, attaches, overrun>>

\* Mutant: the slot is left InProgress.
PollFullKeeps ==
  /\ worker.pc = "send"
  /\ Len(channel) >= ChannelSize
  /\ tail' = worker.tail
  /\ worker' = [Down EXCEPT !.pc = "loop"]
  /\ UNCHANGED <<slot, head, entries, call, channel, tasks, history>>

\* The channel is full: the request goes back, the entry stays.
PollFull ==
  /\ worker.pc = "send"
  /\ Len(channel) >= ChannelSize
  /\ SetState(worker.entry, "Submitted")
  /\ tail' = worker.tail
  /\ worker' = [Down EXCEPT !.pc = "loop"]
  /\ UNCHANGED <<head, entries, call, channel, tasks, history>>

-----------------------------------------------------------------------------
(* Tokio *)

\* io_worker_loop spawns a task, which reads the request's fields.
Receive ==
  /\ channel # <<>>
  /\ LET w == Head(channel)
     IN tasks' = tasks \cup {[proc |-> w.proc, gen |-> w.gen, req |-> slot[w.proc].req, pc |-> "io"]}
  /\ channel' = Tail(channel)
  /\ UNCHANGED <<slot, queue, call, worker, history>>

\* The blocks have been read into the buffer, or written from it.
TaskIo(t) ==
  /\ t.pc = "io"
  /\ tasks' = (tasks \ {t}) \cup {[t EXCEPT !.pc = "check"]}
  /\ UNCHANGED <<slot, queue, call, worker, channel, history>>

\* The generation is compared: a result for an earlier backend is dropped.
TaskCheck(t) ==
  /\ t.pc = "check"
  /\ \/ /\ slot[t.proc].gen = t.gen
        /\ tasks' = (tasks \ {t}) \cup {[t EXCEPT !.pc = "complete"]}
     \/ /\ slot[t.proc].gen # t.gen
        /\ tasks' = tasks \ {t}
  /\ UNCHANGED <<slot, queue, call, worker, channel, history>>

TaskComplete(t) ==
  /\ t.pc = "complete"
  /\ slot' = [slot EXCEPT ![t.proc] = [@ EXCEPT !.state = "Completed", !.result = t.req]]
  /\ tasks' = tasks \ {t}
  /\ UNCHANGED <<queue, call, worker, channel, history>>

-----------------------------------------------------------------------------
CallStep(b) ==
  \/ PushHead(b) \/ PushRoom(b) \/ PushClaim(b) \/ PushStore(b) \/ PushAgain(b) \/ PushGiveUp(b)
  \/ WaitCheck(b) \/ WaitAlive(b) \/ Release(b)

PollStep ==
  PollBegin \/ PollLoad \/ PollEnd \/ PollSkip \/ PollInvalid \/ PollTake \/ PollSend \/ PollFull

TaskStep == \E t \in tasks : TaskIo(t) \/ TaskCheck(t) \/ TaskComplete(t)

Next ==
  \/ \E b \in Backends : Attach(b) \/ Publish(b) \/ CallStep(b)
  \/ PollStep
  \/ WorkerStart \/ WorkerStop \/ WorkerExit
  \/ Receive \/ TaskStep

\* Backends, the main loop and the Tokio threads are scheduled, and storage calls
\* return.  Nobody has to submit, to stop or to start anything.
Fairness ==
  /\ \A b \in Backends : WF_vars(CallStep(b))
  /\ WF_vars(PollStep)
  /\ WF_vars(Receive)
  /\ WF_vars(TaskStep)

Spec == Init /\ [][Next]_vars
FairSpec == Spec /\ Fairness

-----------------------------------------------------------------------------
(* Properties *)

Slots ==
  [state : {"Free", "Submitted", "InProgress", "Completed"}, req : Requests,
   gen : 0..MaxAttaches, result : Requests]
Calls ==
  [pc : {"idle", "push", "room", "claim", "store", "full", "wait", "check", "give_up", "read"},
   req : Requests, pos : Nat, try : 1..2]
Work  == [proc : Backends, gen : 0..MaxAttaches]
Tasks == [proc : Backends, gen : 0..MaxAttaches, req : Requests, pc : {"io", "check", "complete"}]

\* Shapes; the queue holds no more than it has room for, unless two backends have
\* raced for its last entry.
TypeOK ==
  /\ slot \in [Backends -> Slots]
  /\ head \in Nat /\ tail \in Nat
  /\ entries \in [0..(QueueSize - 1) -> Backends \cup {Nobody}]
  /\ call \in [Backends -> Calls]
  /\ worker \in [pc : {"down", "loop", "poll", "take", "send", "stopping"},
                 head : Nat, tail : Nat, entry : Backends \cup {Nobody}]
  /\ channel \in Seq(Work)
  /\ tasks \subseteq Tasks
  /\ requests \in Requests /\ stops \in 0..MaxStops /\ attaches \in 0..MaxAttaches
  /\ dispatched \in [Requests -> Nat]
  /\ overrun \in BOOLEAN
  /\ tail <= head
  /\ ~overrun => head - tail <= QueueSize

\* What a backend reads from its slot is the result of the request it waits for,
\* never that of an earlier one that ended late.
AnswersRight == \A b \in Backends : call[b].pc = "read" => slot[b].result = call[b].req

\* A request is performed at most once, whatever entries earlier requests have left
\* in the queue and however often the channel was full.
DispatchedOnce == \A r \in Requests : dispatched[r] <= 1

\* While a task is at work on a backend's buffer, the backend is still waiting for
\* it: PostgreSQL has not got the buffer back.  Not so while the worker stops,
\* when backends give up before the tasks end.
BufferOwned ==
  worker.pc # "stopping" =>
    \A t \in tasks : t.pc = "io" => call[t.proc].pc # "idle" /\ call[t.proc].req = t.req

\* Every request comes to an end: a result, or an error because the worker has
\* gone, unless two backends have raced for the queue's last entry.
Answered == \A b \in Backends : call[b].pc # "idle" ~> call[b].pc = "idle" \/ overrun

\* "Returns false if the queue is full (backpressure)" (push): a full queue costs
\* a backend time, never its request.
Backpressure == \A b \in Backends : call[b].pc # "idle" ~> call[b].pc = "idle"
=============================================================================

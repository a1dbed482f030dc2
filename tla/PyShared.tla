------------------------------ MODULE PyShared ------------------------------
(***************************************************************************)
(* python/bindings.cpp: one Compressor object and the threads of a Python  *)
(* program that call it. compress, get_bytes and len run with the          *)
(* interpreter lock; compress_batch gives it up while it encodes and takes *)
(* it back to return. The object itself has no lock. A caller may put its  *)
(* own lock around each call (CallerLocks), as a program has to that       *)
(* shares an object of which the C header says only that distinct          *)
(* instances may be used concurrently.                                     *)
(* The arrays that a batch reads meanwhile are the caller's and not here:  *)
(* the code promises nothing to a program that writes to them.             *)
(*                                                                         *)
(* The stream is the series of the two codes of a point, its timestamp and *)
(* its value; each is written in one step here. Threads that mix within a  *)
(* code do worse than this model lets them, so that without the caller's   *)
(* lock it can show what goes wrong, and that every call returns, but not  *)
(* that what the stream holds is right.                                    *)
(***************************************************************************)
EXTENDS Integers, Sequences

CONSTANTS Threads,
          None,         \* no thread
          CallerLocks,  \* the program puts a lock around every call
          Capacity,     \* codes that fit the buffer
          MaxBatch,     \* bound: points in a batch
          MaxCalls      \* bound: compress and compress_batch calls
ASSUME SharedAssumption ==
  /\ None \notin Threads
  /\ CallerLocks \in BOOLEAN
  /\ Capacity \in Nat
  /\ MaxBatch \in Nat
  /\ MaxCalls \in Nat

VARIABLES stream,    \* gt_writer: the codes written
          overflow,  \* gt_writer: a code has been refused
          count,     \* count_ of the C++ object
          gil,       \* the thread that has the interpreter lock
          lock,      \* the thread that has the caller's lock
          pc,        \* where each thread is
          call,      \* the number of the call a thread is in
          todo,      \* points it still has to encode
          written,   \* points it has encoded
          seen,      \* what it has read: the count, or the length of the stream
          shot,      \* the last envelope get_bytes returned
          calls,     \* history: compress and compress_batch calls made
          settled    \* history: a call has ended with the overflow mark set

object  == <<stream, overflow, count>>
locks   == <<gil, lock>>
threads == <<pc, call, todo, written, seen>>
history == <<calls, settled>>
vars    == <<object, locks, threads, shot, history>>

NoShot == [count |-> 0, stream |-> << >>]

Init ==
  /\ stream = << >>
  /\ overflow = FALSE
  /\ count = 0
  /\ gil = None
  /\ lock = None
  /\ pc = [t \in Threads |-> "idle"]
  /\ call = [t \in Threads |-> 0]
  /\ todo = [t \in Threads |-> 0]
  /\ written = [t \in Threads |-> 0]
  /\ seen = [t \in Threads |-> 0]
  /\ shot = NoShot
  /\ calls = 0
  /\ settled = FALSE

Goto(t, label) == pc' = [pc EXCEPT ![t] = label]

-----------------------------------------------------------------------------
(* A thread of the interpreter: it has the interpreter lock when it calls    *)
(* the object, and waits for the caller's lock without it.                   *)
Begin(t) ==
  /\ pc[t] = "idle"
  /\ IF CallerLocks THEN lock = None /\ lock' = t ELSE UNCHANGED lock
  /\ Goto(t, "enter")
  /\ UNCHANGED <<object, gil, call, todo, written, seen, shot, history>>

(* compress(ts, value), or compress_batch on n points, which releases the    *)
(* interpreter lock.                                                         *)
Call(t, label, n) ==
  /\ pc[t] = "enter"
  /\ gil = None
  /\ calls < MaxCalls
  /\ calls' = calls + 1
  /\ call' = [call EXCEPT ![t] = calls + 1]
  /\ todo' = [todo EXCEPT ![t] = n]
  /\ written' = [written EXCEPT ![t] = 0]
  /\ Goto(t, label)
  /\ UNCHANGED <<object, lock, seen, shot, settled>>

Compress(t) == gil' = t /\ Call(t, "ts", 1)

CompressBatch(t, n) == gil' = None /\ Call(t, IF n = 0 THEN "sum" ELSE "ts", n)

(* A call that keeps the interpreter lock and leaves the object alone: len,  *)
(* and compress_batch of arrays of unequal length, which throws before it    *)
(* gives the lock away.                                                      *)
Other(t) ==
  /\ pc[t] = "enter"
  /\ gil = None
  /\ gil' = t
  /\ Goto(t, "return")
  /\ UNCHANGED <<object, lock, call, todo, written, shot, history>>

Size(t)    == Other(t) /\ seen' = [seen EXCEPT ![t] = count]
Unequal(t) == Other(t) /\ UNCHANGED seen

(* Mutant: a code that does not fit is written. *)
PutUnbounded(t, kind) ==
  /\ stream' = Append(stream, [kind |-> kind, call |-> call[t], point |-> written[t] + 1])
  /\ overflow' = (overflow \/ Len(stream) >= Capacity)

(* The code of point number written + 1 of the call. The writer has no room  *)
(* for a second code once a first one did not fit: Capacity counts codes.    *)
Put(t, kind) ==
  IF Len(stream) < Capacity /\ ~ overflow
  THEN /\ stream' = Append(stream, [kind |-> kind, call |-> call[t], point |-> written[t] + 1])
       /\ UNCHANGED overflow
  ELSE /\ overflow' = TRUE
       /\ UNCHANGED stream

(* Mutant: the timestamp of the first point is taken for the block's. *)
EncodeTsNotFirst(t) ==
  /\ pc[t] = "ts"
  /\ IF stream = << >> THEN UNCHANGED <<stream, overflow>> ELSE Put(t, "ts")
  /\ Goto(t, "val")
  /\ UNCHANGED <<count, locks, call, todo, written, seen, shot, history>>

EncodeTs(t) ==
  /\ pc[t] = "ts"
  /\ Put(t, "ts")
  /\ Goto(t, "val")
  /\ UNCHANGED <<count, locks, call, todo, written, seen, shot, history>>

(* Mutant: the batch tries a point again that did not fit. *)
EncodeValRetries(t) ==
  /\ pc[t] = "val"
  /\ Put(t, "val")
  /\ IF overflow'
     THEN Goto(t, "ts") /\ UNCHANGED <<todo, written>>
     ELSE /\ written' = [written EXCEPT ![t] = @ + 1]
          /\ todo' = [todo EXCEPT ![t] = @ - 1]
          /\ Goto(t, IF todo[t] = 1 THEN "sum" ELSE "ts")
  /\ UNCHANGED <<count, locks, call, seen, shot, history>>

(* The value, and the look at the overflow mark behind it. append throws     *)
(* there and counts nothing; append_batch adds what was written to the count *)
(* first, and ends at StoreCount.                                            *)
EncodeVal(t) ==
  /\ pc[t] = "val"
  /\ Put(t, "val")
  /\ IF overflow'
     THEN /\ UNCHANGED <<todo, written>>
          /\ IF gil = t
             THEN settled' = TRUE /\ Goto(t, "return")
             ELSE Goto(t, "sum") /\ UNCHANGED settled
     ELSE /\ written' = [written EXCEPT ![t] = @ + 1]
          /\ todo' = [todo EXCEPT ![t] = @ - 1]
          /\ Goto(t, IF todo[t] = 1 THEN "sum" ELSE "ts")
          /\ UNCHANGED settled
  /\ UNCHANGED <<count, locks, call, seen, shot, calls>>

(* count_ += written, or ++count_: a load and a store.                       *)
LoadCount(t) ==
  /\ pc[t] = "sum"
  /\ seen' = [seen EXCEPT ![t] = count]
  /\ Goto(t, "store")
  /\ UNCHANGED <<object, locks, call, todo, written, shot, history>>

(* Mutant: the count is that of the call. *)
StoreCountAssigned(t) ==
  /\ pc[t] = "store"
  /\ count' = written[t]
  /\ settled' = overflow
  /\ Goto(t, IF gil = t THEN "return" ELSE "regain")
  /\ UNCHANGED <<stream, overflow, locks, call, todo, written, seen, shot, calls>>

(* Mutant: one point is counted where one or more were written. *)
StoreCountOne(t) ==
  /\ pc[t] = "store"
  /\ count' = seen[t] + (IF written[t] > 0 THEN 1 ELSE 0)
  /\ settled' = overflow
  /\ Goto(t, IF gil = t THEN "return" ELSE "regain")
  /\ UNCHANGED <<stream, overflow, locks, call, todo, written, seen, shot, calls>>

StoreCount(t) ==
  /\ pc[t] = "store"
  /\ count' = seen[t] + written[t]
  /\ settled' = overflow
  /\ Goto(t, IF gil = t THEN "return" ELSE "regain")
  /\ UNCHANGED <<stream, overflow, locks, call, todo, written, seen, shot, calls>>

(* The destructor of gil_scoped_release.                                     *)
Regain(t) ==
  /\ pc[t] = "regain"
  /\ gil = None
  /\ gil' = t
  /\ Goto(t, "return")
  /\ UNCHANGED <<object, lock, call, todo, written, seen, shot, history>>

Return(t) ==
  /\ pc[t] = "return"
  /\ gil' = None
  /\ IF CallerLocks THEN lock' = None ELSE UNCHANGED lock
  /\ Goto(t, "idle")
  /\ UNCHANGED <<object, call, todo, written, seen, shot, history>>

(* get_bytes: bytes() reads the length of the stream,                        *)
GetBytes(t) ==
  /\ pc[t] = "enter"
  /\ gil = None
  /\ gil' = t
  /\ seen' = [seen EXCEPT ![t] = Len(stream)]
  /\ Goto(t, "bytes")
  /\ UNCHANGED <<object, lock, call, todo, written, shot, history>>

(* and then the count, and copies as much of the buffer.                     *)
ReadCount(t) ==
  /\ pc[t] = "bytes"
  /\ shot' = [count |-> count, stream |-> SubSeq(stream, 1, seen[t])]
  /\ Goto(t, "return")
  /\ UNCHANGED <<object, locks, call, todo, written, seen, history>>

Step(t) ==
  \/ Begin(t)
  \/ Compress(t)
  \/ \E n \in 0 .. MaxBatch : CompressBatch(t, n)
  \/ EncodeTs(t) \/ EncodeVal(t) \/ LoadCount(t) \/ StoreCount(t)
  \/ Regain(t) \/ Return(t)
  \/ GetBytes(t) \/ ReadCount(t)
  \/ Size(t) \/ Unequal(t)

Next == \E t \in Threads : Step(t)

(* The scheduler runs every thread, and the interpreter lock comes round to  *)
(* each thread that waits for it.                                            *)
Fairness ==
  \A t \in Threads :
    /\ WF_vars(EncodeTs(t)) /\ WF_vars(EncodeVal(t))
    /\ WF_vars(LoadCount(t)) /\ WF_vars(StoreCount(t))
    /\ WF_vars(ReadCount(t)) /\ WF_vars(Return(t))
    /\ SF_vars(Regain(t))

Spec == Init /\ [][Next]_vars /\ Fairness

-----------------------------------------------------------------------------
Labels == {"idle", "enter", "ts", "val", "sum", "store", "regain", "return", "bytes"}

Codes == [kind : {"ts", "val"}, call : 1 .. MaxCalls, point : 1 .. MaxBatch + 1]

TypeOK ==
  /\ stream \in Seq(Codes) /\ Len(stream) <= Capacity
  /\ overflow \in BOOLEAN /\ settled \in BOOLEAN
  /\ count \in Nat
  /\ gil \in Threads \cup {None}
  /\ lock \in Threads \cup {None}
  /\ pc \in [Threads -> Labels]
  /\ \A t \in Threads : todo[t] >= 0 /\ written[t] >= 0

(* What the C header says of a stream: for each appended point its timestamp *)
(* and its value, side by side. Only the end of the buffer, or a point that  *)
(* is being written, leaves a timestamp without its value.                   *)
StreamLayout ==
  \A i \in 1 .. Len(stream) :
    /\ stream[i].kind = (IF i % 2 = 1 THEN "ts" ELSE "val")
    /\ i % 2 = 0 => stream[i - 1] = [stream[i] EXCEPT !.kind = "ts"]

(* What the C++ header says of an envelope: the count in it is the number of *)
(* points in the stream behind it. And that stream never ends in the middle  *)
(* of a batch: whoever calls get_bytes while another thread is in            *)
(* compress_batch gets all of the batch or nothing of it.                    *)
EnvelopeIsSnapshot ==
  LET n == Len(shot.stream)
  IN  /\ shot.count = n \div 2
      /\ 0 < n /\ n < Len(stream) => stream[n + 1].call # stream[n].call

(* The calls of all threads are the calls of one compressor one after the    *)
(* other, as PointLog has it: each takes effect where it adds to the count,  *)
(* with all its points.                                                      *)
Counted == [i \in 1 .. count |-> [stream[2 * i] EXCEPT !.kind = "point"]]
Log == INSTANCE PointLog WITH
         core    <- [log |-> Counted, full |-> settled],
         reading <- FALSE,
         stream  <- [kind |-> "none", points |-> << >>, spare |-> 0],
         taken   <- << >>,
         ended   <- FALSE
ImplementsPointLog == Log!Spec

(* Every call returns: a batch that has to take the interpreter lock back    *)
(* gets it, also while other threads wait for the caller's lock.             *)
CallsReturn == \A t \in Threads : pc[t] \in {"ts", "val", "bytes"} ~> pc[t] = "idle"
=============================================================================

--------------------------- MODULE PySharedProofs ---------------------------
(***************************************************************************)
(* Proofs about PyShared, for a program that locks around each call, and   *)
(* any number of threads, calls and points.                                *)
(***************************************************************************)
EXTENDS PyShared, SequenceTheorems, TLAPS

InCall(t)   == pc[t] \in {"ts", "val", "sum", "store"}
Encoding(t) == pc[t] \in {"ts", "val"}

Shots == [count : Nat, stream : Seq(Codes)]

TypeInv ==
  /\ TypeOK
  /\ call \in [Threads -> Nat]
  /\ todo \in [Threads -> Nat]
  /\ written \in [Threads -> Nat]
  /\ seen \in [Threads -> Nat]
  /\ shot \in Shots
  /\ calls \in 0 .. MaxCalls

(* Only the thread that has the lock is in a call. *)
LockInv == \A t \in Threads : pc[t] # "idle" => lock = t

(* A thread that encodes is in the last call, and has points left; with the  *)
(* interpreter lock it is in compress, which has one point.                  *)
CallInv ==
  \A t \in Threads :
    Encoding(t) => /\ call[t] = calls /\ calls > 0
                   /\ todo[t] > 0
                   /\ written[t] + todo[t] <= MaxBatch + 1
                   /\ gil = t => written[t] + todo[t] = 1

(* Only a thread between the codes of a point leaves the stream with a       *)
(* timestamp at its end, and it is that of the point.                        *)
ParityInv ==
  /\ overflow \/ Len(stream) % 2 = 0 \/ \E t \in Threads : pc[t] = "val"
  /\ \A t \in Threads :
       pc[t] = "val" /\ ~ overflow =>
         /\ Len(stream) % 2 = 1
         /\ stream[Len(stream)] =
              [kind |-> "ts", call |-> call[t], point |-> written[t] + 1]

(* What the count lacks is what the thread in a call has written.            *)
CountInv ==
  /\ count = Len(stream) \div 2 \/ \E t \in Threads : InCall(t)
  /\ \A t \in Threads : InCall(t) => count + written[t] = Len(stream) \div 2
  /\ \A t \in Threads : pc[t] = "store" => seen[t] = count

(* After an overflow no call writes a point. *)
SettledInv ==
  /\ settled => overflow
  /\ \A t \in Threads : InCall(t) /\ settled => written[t] = 0

(* The codes in the stream are those of the calls there have been. *)
DataInv == \A i \in 1 .. Len(stream) : stream[i].call <= calls

(* The last envelope was made before the call that is being encoded.         *)
ShotInv ==
  /\ Len(shot.stream) <= Len(stream)
  /\ \A t \in Threads : Encoding(t) =>
       \A i \in 1 .. Len(shot.stream) : stream[i].call # calls
  /\ \A t \in Threads : pc[t] = "bytes" => seen[t] = Len(stream)

IInv ==
  /\ TypeInv /\ LockInv /\ CallInv /\ ParityInv /\ CountInv /\ SettledInv
  /\ DataInv /\ ShotInv
  /\ StreamLayout /\ EnvelopeIsSnapshot

-----------------------------------------------------------------------------
LEMMA InitInv == Init => IInv
<1> SUFFICES ASSUME Init PROVE IInv
  OBVIOUS
<1> USE DEF Init
<1>1. TypeInv
  <2>1. << >> \in Seq(Codes) /\ Len(<< >>) = 0
    OBVIOUS
  <2>2. NoShot \in Shots
    BY <2>1 DEF NoShot, Shots
  <2>3. TypeOK
    <3>1. stream \in Seq(Codes) /\ Len(stream) <= Capacity
      BY <2>1, SharedAssumption
    <3>2. pc \in [Threads -> Labels]
      BY DEF Labels
    <3>3. overflow \in BOOLEAN /\ settled \in BOOLEAN
      BY Zenon
    <3>4. gil \in Threads \cup {None} /\ lock \in Threads \cup {None} /\ count \in Nat
      OBVIOUS
    <3>5. \A t \in Threads : todo[t] >= 0 /\ written[t] >= 0
      <4>1. ASSUME NEW t \in Threads PROVE todo[t] = 0 /\ written[t] = 0
        OBVIOUS
      <4>2. 0 >= 0
        OBVIOUS
      <4> QED
        BY <4>1, <4>2, Zenon
    <3> QED
      BY <3>1, <3>2, <3>3, <3>4, <3>5 DEF TypeOK
  <2> QED
    BY <2>2, <2>3, SharedAssumption DEF TypeInv
<1>2. LockInv /\ CallInv /\ ParityInv /\ CountInv /\ SettledInv
  BY DEF LockInv, CallInv, ParityInv, CountInv, SettledInv, Encoding, InCall
<1>3. DataInv /\ ShotInv
  BY DEF DataInv, ShotInv, Encoding, NoShot
<1>4. StreamLayout /\ EnvelopeIsSnapshot
  BY DEF StreamLayout, EnvelopeIsSnapshot, NoShot
<1> QED
  BY <1>1, <1>2, <1>3, <1>4 DEF IInv

(* While one thread is in a call the others are not. *)
LEMMA Alone ==
  ASSUME IInv, NEW t \in Threads, pc[t] # "idle"
  PROVE  \A u \in Threads : u # t => pc[u] = "idle"
BY DEF IInv, LockInv

(* The steps between calls: no thread is in a call that encodes, before or   *)
(* after, and the compressor and the envelope stay as they are.              *)
LEMMA QuietInv ==
  ASSUME IInv, TypeInv', LockInv', NEW t \in Threads,
         \A u \in Threads : u # t => pc[u] = "idle",
         pc[t] \in {"idle", "enter", "regain", "return"},
         NEW l \in {"idle", "enter", "regain", "return", "bytes"},
         pc' = [pc EXCEPT ![t] = l],
         l = "bytes" => seen'[t] = Len(stream),
         UNCHANGED <<stream, overflow, count, settled, calls, shot>>
  PROVE  IInv'
<1>1. \A u \in Threads : ~ InCall(u) /\ ~ Encoding(u) /\ pc[u] # "val"
  BY DEF InCall, Encoding
<1>2. pc \in [Threads -> Labels]
  BY DEF IInv, TypeInv, TypeOK
<1>3. pc'[t] = l /\ \A u \in Threads : u # t => pc'[u] = "idle"
  BY <1>2
<1>4. \A u \in Threads : ~ InCall(u)' /\ ~ Encoding(u)' /\ pc'[u] \notin {"val", "store"}
  BY <1>3 DEF InCall, Encoding
<1>5. (CallInv /\ ParityInv /\ CountInv /\ SettledInv)'
  BY <1>1, <1>4 DEF IInv, CallInv, ParityInv, CountInv, SettledInv
<1>6. (DataInv /\ ShotInv)'
  BY <1>1, <1>3, <1>4 DEF IInv, DataInv, ShotInv
<1>7. (StreamLayout /\ EnvelopeIsSnapshot)'
  BY DEF IInv, StreamLayout, EnvelopeIsSnapshot
<1> QED
  BY <1>5, <1>6, <1>7 DEF IInv

LEMMA BeginInv ==
  ASSUME IInv, CallerLocks, NEW t \in Threads, Begin(t)
  PROVE  IInv'
<1>1. \A u \in Threads : pc[u] = "idle"
  BY SharedAssumption DEF IInv, LockInv, Begin
<1>2. lock' = t /\ pc' = [pc EXCEPT ![t] = "enter"]
  BY DEF Begin, Goto
<1>3. TypeInv'
  BY <1>2 DEF IInv, TypeInv, TypeOK, Labels, Begin, object, history
<1>4. LockInv'
  BY <1>1, <1>2 DEF IInv, TypeInv, TypeOK, LockInv
<1> QED
  BY <1>1, <1>2, <1>3, <1>4, QuietInv DEF Begin, object, history

LEMMA OtherInv ==
  ASSUME IInv, NEW t \in Threads, Size(t) \/ Unequal(t)
  PROVE  IInv'
<1>1. /\ pc[t] = "enter" /\ pc' = [pc EXCEPT ![t] = "return"] /\ gil' = t
      /\ UNCHANGED <<stream, overflow, count, settled, calls, shot, lock, call, todo, written>>
  BY DEF Size, Unequal, Other, Goto, object, history
<1>2. seen' \in [Threads -> Nat]
  <2>1. count \in Nat /\ seen \in [Threads -> Nat]
    BY DEF IInv, TypeInv, TypeOK
  <2>2. CASE Size(t)
    BY <2>1, <2>2 DEF Size
  <2>3. CASE Unequal(t)
    BY <2>1, <2>3 DEF Unequal
  <2> QED
    BY <2>2, <2>3
<1>3. TypeInv'
  BY <1>1, <1>2 DEF IInv, TypeInv, TypeOK, Labels
<1>4. \A u \in Threads : u # t => pc[u] = "idle"
  BY <1>1, Alone
<1>5. LockInv'
  BY <1>1 DEF IInv, TypeInv, TypeOK, LockInv
<1> QED
  BY <1>1, <1>3, <1>4, <1>5, QuietInv

LEMMA RegainInv ==
  ASSUME IInv, NEW t \in Threads, Regain(t)
  PROVE  IInv'
<1>1. /\ pc[t] = "regain" /\ pc' = [pc EXCEPT ![t] = "return"] /\ gil' = t
      /\ UNCHANGED <<stream, overflow, count, settled, calls, shot, lock, call, todo, written, seen>>
  BY DEF Regain, Goto, object, history
<1>2. TypeInv'
  BY <1>1 DEF IInv, TypeInv, TypeOK, Labels
<1>3. \A u \in Threads : u # t => pc[u] = "idle"
  BY <1>1, Alone
<1>4. LockInv'
  BY <1>1 DEF IInv, TypeInv, TypeOK, LockInv
<1> QED
  BY <1>1, <1>2, <1>3, <1>4, QuietInv

LEMMA ReturnInv ==
  ASSUME IInv, CallerLocks, NEW t \in Threads, Return(t)
  PROVE  IInv'
<1>1. /\ pc[t] = "return" /\ pc' = [pc EXCEPT ![t] = "idle"] /\ gil' = None /\ lock' = None
      /\ UNCHANGED <<stream, overflow, count, settled, calls, shot, call, todo, written, seen>>
  BY DEF Return, Goto, object, history
<1>2. TypeInv'
  BY <1>1 DEF IInv, TypeInv, TypeOK, Labels
<1>3. \A u \in Threads : u # t => pc[u] = "idle"
  BY <1>1, Alone
<1>4. LockInv'
  BY <1>1, <1>3 DEF IInv, TypeInv, TypeOK, LockInv
<1> QED
  BY <1>1, <1>2, <1>3, <1>4, QuietInv

LEMMA GetBytesInv ==
  ASSUME IInv, NEW t \in Threads, GetBytes(t)
  PROVE  IInv'
<1>1. /\ pc[t] = "enter" /\ pc' = [pc EXCEPT ![t] = "bytes"] /\ gil' = t
      /\ seen' = [seen EXCEPT ![t] = Len(stream)]
      /\ UNCHANGED <<stream, overflow, count, settled, calls, shot, lock, call, todo, written>>
  BY DEF GetBytes, Goto, object, history
<1>2. Len(stream) \in Nat
  BY LenProperties DEF IInv, TypeInv, TypeOK
<1>3. TypeInv' /\ seen'[t] = Len(stream)
  BY <1>1, <1>2 DEF IInv, TypeInv, TypeOK, Labels
<1>4. \A u \in Threads : u # t => pc[u] = "idle"
  BY <1>1, Alone
<1>5. LockInv'
  BY <1>1 DEF IInv, TypeInv, TypeOK, LockInv
<1> QED
  BY <1>1, <1>3, <1>4, <1>5, QuietInv

-----------------------------------------------------------------------------
(* What a call appends to the stream. *)
NextCode(t, k) == [kind |-> k, call |-> calls, point |-> written[t] + 1]

(* A code is written, or the overflow mark is set and it is not. *)
LEMMA PutFacts ==
  ASSUME IInv, NEW t \in Threads, NEW k \in {"ts", "val"}, Encoding(t), Put(t, k)
  PROVE  /\ Len(stream) \in Nat
         /\ \/ /\ ~ overflow /\ overflow' = FALSE
               /\ stream' \in Seq(Codes)
               /\ Len(stream') = Len(stream) + 1 /\ Len(stream') <= Capacity
               /\ \A i \in 1 .. Len(stream) : stream'[i] = stream[i]
               /\ stream'[Len(stream) + 1] = NextCode(t, k)
            \/ overflow' = TRUE /\ stream' = stream
<1>1. /\ stream \in Seq(Codes) /\ Len(stream) \in Nat /\ Capacity \in Nat
      /\ overflow \in BOOLEAN /\ Len(stream) <= Capacity
  BY LenProperties, SharedAssumption DEF IInv, TypeInv, TypeOK
<1>2. NextCode(t, k) \in Codes
  <2>1. /\ calls \in 1 .. MaxCalls
        /\ written[t] \in Nat /\ todo[t] \in Nat
        /\ todo[t] > 0 /\ written[t] + todo[t] <= MaxBatch + 1 /\ MaxBatch \in Nat
    BY SharedAssumption DEF IInv, TypeInv, CallInv
  <2>2. written[t] + 1 \in 1 .. MaxBatch + 1
    BY <2>1
  <2> QED
    BY <2>1, <2>2 DEF Codes, NextCode
<1>3. call[t] = calls
  BY DEF IInv, CallInv
<1>4. CASE Len(stream) < Capacity /\ ~ overflow
  <2> DEFINE code == NextCode(t, k)
  <2>1. stream' = Append(stream, code) /\ overflow' = overflow
    BY <1>3, <1>4 DEF Put, NextCode
  <2>2. code \in Codes
    BY <1>2
  <2> HIDE DEF code
  <2>3. /\ stream' \in Seq(Codes) /\ Len(stream') = Len(stream) + 1
        /\ \A i \in 1 .. Len(stream) : stream'[i] = stream[i]
        /\ stream'[Len(stream) + 1] = code
    BY <1>1, <2>1, <2>2, AppendProperties
  <2>4. overflow' = FALSE
    BY <1>1, <1>4, <2>1, Zenon
  <2>5. Len(stream') <= Capacity
    BY <1>1, <1>4, <2>3
  <2> QED
    BY <1>1, <1>4, <2>3, <2>4, <2>5 DEF code
<1>5. CASE ~ (Len(stream) < Capacity /\ ~ overflow)
  BY <1>1, <1>5 DEF Put
<1> QED
  BY <1>4, <1>5

(* The last envelope and the codes of other calls are not touched by it. *)
LEMMA PutKeeps ==
  ASSUME IInv, NEW t \in Threads, NEW k \in {"ts", "val"}, Encoding(t), Put(t, k),
         UNCHANGED <<calls, shot>>
  PROVE  /\ \A i \in 1 .. Len(stream') : stream'[i].call <= calls
         /\ Len(shot.stream) <= Len(stream')
         /\ \A i \in 1 .. Len(shot.stream) : stream'[i].call # calls
         /\ EnvelopeIsSnapshot'
<1>1. /\ Len(stream) \in Nat /\ Len(shot.stream) \in Nat /\ calls \in Nat
      /\ Len(shot.stream) <= Len(stream)
      /\ \A i \in 1 .. Len(stream) : stream[i].call <= calls
      /\ \A i \in 1 .. Len(shot.stream) : stream[i].call # calls
  <2>1. stream \in Seq(Codes) /\ shot \in Shots /\ calls \in Nat
    BY DEF IInv, TypeInv, TypeOK
  <2>2. Len(stream) \in Nat /\ Len(shot.stream) \in Nat
    BY <2>1, LenProperties DEF Shots
  <2>3. \A i \in 1 .. Len(stream) : stream[i].call <= calls
    BY DEF IInv, DataInv
  <2>4. /\ Len(shot.stream) <= Len(stream)
        /\ \A i \in 1 .. Len(shot.stream) : stream[i].call # calls
    BY DEF IInv, ShotInv
  <2> QED
    BY <2>1, <2>2, <2>3, <2>4
<1>2. EnvelopeIsSnapshot
  BY DEF IInv
<1>3. CASE stream' = stream
  BY <1>1, <1>2, <1>3 DEF EnvelopeIsSnapshot
<1>4. CASE /\ Len(stream') = Len(stream) + 1
           /\ \A i \in 1 .. Len(stream) : stream'[i] = stream[i]
           /\ stream'[Len(stream) + 1] = NextCode(t, k)
  <2>1. stream'[Len(stream) + 1].call = calls
    BY <1>4 DEF NextCode
  <2>2. \A i \in 1 .. Len(stream') : i \in 1 .. Len(stream) \/ i = Len(stream) + 1
    BY <1>1, <1>4
  <2>3. \A i \in 1 .. Len(stream') : stream'[i].call <= calls
    BY <1>1, <1>4, <2>1, <2>2
  <2>4. /\ Len(shot.stream) <= Len(stream')
        /\ \A i \in 1 .. Len(shot.stream) : stream'[i].call # calls
    BY <1>1, <1>4
  <2>5. EnvelopeIsSnapshot'
    <3> DEFINE n == Len(shot.stream)
    <3>1. shot.count = n \div 2
      BY <1>2 DEF EnvelopeIsSnapshot
    <3>2. ASSUME 0 < n, n < Len(stream') PROVE stream'[n + 1].call # stream'[n].call
      <4>1. CASE n < Len(stream)
        BY <1>1, <1>2, <1>4, <3>2, <4>1 DEF EnvelopeIsSnapshot
      <4>2. CASE n = Len(stream)
        BY <1>1, <2>1, <2>4, <3>2, <4>2
      <4> QED
        BY <1>1, <4>1, <4>2
    <3> QED
      BY <3>1, <3>2 DEF EnvelopeIsSnapshot
  <2> QED
    BY <2>3, <2>4, <2>5
<1> QED
  BY <1>3, <1>4, PutFacts

(* What is the same in both steps of a point. *)
LEMMA PutStep ==
  ASSUME IInv, NEW t \in Threads, NEW k \in {"ts", "val"}, Encoding(t), Put(t, k),
         NEW l \in {"ts", "val", "sum", "return"}, pc' = [pc EXCEPT ![t] = l],
         UNCHANGED <<calls, shot, lock>>
  PROVE  /\ pc' \in [Threads -> Labels] /\ pc'[t] = l
         /\ \A u \in Threads : u # t => pc'[u] = "idle"
         /\ LockInv' /\ DataInv' /\ ShotInv'
         /\ EnvelopeIsSnapshot'
         /\ settled => overflow'
<1>1. pc \in [Threads -> Labels] /\ pc[t] # "idle" /\ \A u \in Threads : u # t => pc[u] = "idle"
  BY Alone DEF Encoding, IInv, TypeInv, TypeOK
<1>2. /\ pc' \in [Threads -> Labels] /\ pc'[t] = l
      /\ \A u \in Threads : u # t => pc'[u] = "idle"
  BY <1>1 DEF Labels
<1>3. LockInv'
  BY <1>1, <1>2 DEF IInv, LockInv
<1>4. /\ \A i \in 1 .. Len(stream') : stream'[i].call <= calls
      /\ Len(shot.stream) <= Len(stream')
      /\ \A i \in 1 .. Len(shot.stream) : stream'[i].call # calls
      /\ EnvelopeIsSnapshot'
  BY PutKeeps
<1>5. DataInv'
  BY <1>4 DEF DataInv
<1>6. ShotInv'
  BY <1>2, <1>4 DEF ShotInv
<1>7. settled => overflow'
  BY PutFacts DEF IInv, SettledInv
<1> QED
  BY <1>2, <1>3, <1>4, <1>5, <1>6, <1>7

LEMMA EncodeTsInv ==
  ASSUME IInv, NEW t \in Threads, EncodeTs(t)
  PROVE  IInv'
<1>1. /\ pc[t] = "ts" /\ Put(t, "ts") /\ pc' = [pc EXCEPT ![t] = "val"]
      /\ UNCHANGED <<count, gil, lock, call, todo, written, seen, shot, calls, settled>>
  BY DEF EncodeTs, Goto, locks, history
<1>2. Encoding(t) /\ InCall(t)
  BY <1>1 DEF Encoding, InCall
<1>3. /\ pc' \in [Threads -> Labels] /\ pc'[t] = "val"
      /\ \A u \in Threads : u # t => pc'[u] = "idle"
      /\ LockInv' /\ DataInv' /\ ShotInv'
      /\ EnvelopeIsSnapshot'
      /\ settled => overflow'
  BY <1>1, <1>2, PutStep
<1>4. \A u \in Threads : (Encoding(u)' \/ InCall(u)' \/ pc'[u] # "idle") => u = t
  BY <1>3 DEF Encoding, InCall
<1>5. overflow \/ Len(stream) % 2 = 0
  BY <1>1, Alone DEF IInv, ParityInv
<1>6. /\ Len(stream) \in Nat
      /\ \/ /\ ~ overflow /\ overflow' = FALSE
            /\ stream' \in Seq(Codes)
            /\ Len(stream') = Len(stream) + 1 /\ Len(stream') <= Capacity
            /\ \A i \in 1 .. Len(stream) : stream'[i] = stream[i]
            /\ stream'[Len(stream) + 1] = NextCode(t, "ts")
         \/ overflow' = TRUE /\ stream' = stream
  BY <1>1, <1>2, PutFacts
<1>7. TypeInv'
  <2>1. stream' \in Seq(Codes) /\ Len(stream') <= Capacity
    BY <1>6 DEF IInv, TypeInv, TypeOK
  <2>2. overflow' \in BOOLEAN
    BY <1>6, Zenon
  <2> QED
    BY <1>1, <1>3, <2>1, <2>2 DEF IInv, TypeInv, TypeOK
<1>8. CallInv'
  BY <1>1, <1>2, <1>4 DEF IInv, CallInv
<1>9. ParityInv'
  <2>1. ASSUME ~ overflow'
        PROVE  /\ Len(stream') % 2 = 1
               /\ stream'[Len(stream')] =
                    [kind |-> "ts", call |-> call[t], point |-> written[t] + 1]
    <3>1. call[t] = calls
      BY <1>2 DEF IInv, CallInv
    <3> QED
      BY <1>5, <1>6, <2>1, <3>1 DEF NextCode
  <2> QED
    BY <1>1, <1>3, <1>4, <2>1 DEF ParityInv
<1>10. CountInv'
  <2>1. count + written[t] = Len(stream) \div 2
    BY <1>2 DEF IInv, CountInv
  <2>2. Len(stream') \div 2 = Len(stream) \div 2
    BY <1>5, <1>6
  <2>3. InCall(t)'
    BY <1>3 DEF InCall
  <2> QED
    BY <1>1, <1>3, <1>4, <2>1, <2>2, <2>3 DEF CountInv
<1>11. SettledInv'
  BY <1>1, <1>2, <1>3, <1>4 DEF IInv, SettledInv
<1>12. StreamLayout'
  <2>1. StreamLayout
    BY DEF IInv
  <2>2. CASE stream' = stream
    BY <2>1, <2>2 DEF StreamLayout
  <2>3. CASE /\ ~ overflow /\ Len(stream') = Len(stream) + 1
             /\ \A i \in 1 .. Len(stream) : stream'[i] = stream[i]
             /\ stream'[Len(stream) + 1] = NextCode(t, "ts")
    <3> SUFFICES ASSUME NEW i \in 1 .. Len(stream')
                 PROVE  /\ stream'[i].kind = (IF i % 2 = 1 THEN "ts" ELSE "val")
                        /\ i % 2 = 0 => stream'[i - 1] = [stream'[i] EXCEPT !.kind = "ts"]
      BY DEF StreamLayout
    <3>1. CASE i \in 1 .. Len(stream)
      <4>1. stream'[i] = stream[i] /\ (i % 2 = 0 => stream'[i - 1] = stream[i - 1])
        BY <1>6, <2>3, <3>1
      <4> QED
        BY <2>1, <3>1, <4>1 DEF StreamLayout
    <3>2. CASE i = Len(stream) + 1
      BY <1>5, <1>6, <2>3, <3>2 DEF NextCode
    <3> QED
      BY <1>6, <2>3, <3>1, <3>2
  <2> QED
    BY <1>6, <2>2, <2>3
<1> QED
  BY <1>3, <1>7, <1>8, <1>9, <1>10, <1>11, <1>12 DEF IInv

(* The value was stored: the point is written. *)
LEMMA PointWritten ==
  ASSUME IInv, NEW t \in Threads, EncodeVal(t), ~ overflow'
  PROVE  /\ stream' \in Seq(Codes) /\ Len(stream') <= Capacity
         /\ Len(stream') % 2 = 0
         /\ count + written[t] + 1 = Len(stream') \div 2
         /\ StreamLayout'
<1>1. pc[t] = "val" /\ Put(t, "val") /\ Encoding(t) /\ InCall(t)
  BY DEF EncodeVal, Encoding, InCall
<1>2. /\ Len(stream) \in Nat /\ ~ overflow
      /\ stream' \in Seq(Codes)
      /\ Len(stream') = Len(stream) + 1 /\ Len(stream') <= Capacity
      /\ \A i \in 1 .. Len(stream) : stream'[i] = stream[i]
      /\ stream'[Len(stream) + 1] = NextCode(t, "val")
  BY <1>1, PutFacts
<1>3. /\ Len(stream) % 2 = 1 /\ call[t] = calls
      /\ stream[Len(stream)] =
           [kind |-> "ts", call |-> call[t], point |-> written[t] + 1]
  BY <1>1, <1>2 DEF IInv, ParityInv, CallInv
<1>4. count + written[t] = Len(stream) \div 2 /\ count \in Nat /\ written[t] \in Nat
  BY <1>1 DEF IInv, CountInv, TypeInv, TypeOK
<1>5. Len(stream') % 2 = 0 /\ count + written[t] + 1 = Len(stream') \div 2
  <2>1. Len(stream') = Len(stream) + 1 /\ Len(stream) % 2 = 1 /\ Len(stream) \in Nat
    BY <1>2, <1>3
  <2>2. Len(stream') % 2 = 0 /\ Len(stream') \div 2 = Len(stream) \div 2 + 1
    BY <2>1
  <2> QED
    BY <1>4, <2>2
<1>6. StreamLayout'
  <2> SUFFICES ASSUME NEW i \in 1 .. Len(stream')
               PROVE  /\ stream'[i].kind = (IF i % 2 = 1 THEN "ts" ELSE "val")
                      /\ i % 2 = 0 => stream'[i - 1] = [stream'[i] EXCEPT !.kind = "ts"]
    BY DEF StreamLayout
  <2>1. StreamLayout
    BY DEF IInv
  <2>2. CASE i \in 1 .. Len(stream)
    <3>1. stream'[i] = stream[i] /\ (i % 2 = 0 => stream'[i - 1] = stream[i - 1])
      BY <1>2, <2>2
    <3> QED
      BY <2>1, <2>2, <3>1 DEF StreamLayout
  <2>3. CASE i = Len(stream) + 1
    <3>1. i % 2 = 0 /\ i - 1 = Len(stream) /\ Len(stream) \in 1 .. Len(stream)
      BY <1>2, <1>3, <2>3
    <3>2. stream'[i] = NextCode(t, "val") /\ stream'[i - 1] = stream[Len(stream)]
      BY <1>2, <2>3, <3>1
    <3>3. stream[Len(stream)] = [NextCode(t, "val") EXCEPT !.kind = "ts"]
      BY <1>3 DEF NextCode
    <3>4. stream'[i].kind = "val"
      BY <3>2 DEF NextCode
    <3> QED
      BY <3>1, <3>2, <3>3, <3>4
  <2> QED
    BY <1>2, <2>2, <2>3
<1> QED
  BY <1>2, <1>5, <1>6

LEMMA EncodeValInv ==
  ASSUME IInv, NEW t \in Threads, EncodeVal(t)
  PROVE  IInv'
<1>1. /\ pc[t] = "val" /\ Put(t, "val")
      /\ UNCHANGED <<count, gil, lock, call, seen, shot, calls>>
  BY DEF EncodeVal, locks
<1>2. Encoding(t) /\ InCall(t)
  BY <1>1 DEF Encoding, InCall
<1>3. /\ todo[t] \in Nat /\ written[t] \in Nat /\ MaxBatch \in Nat
      /\ todo[t] > 0 /\ written[t] + todo[t] <= MaxBatch + 1 /\ call[t] = calls /\ calls > 0
      /\ count + written[t] = Len(stream) \div 2
      /\ todo \in [Threads -> Nat] /\ written \in [Threads -> Nat]
  BY <1>2, SharedAssumption DEF IInv, TypeInv, CallInv, CountInv
<1>4. CASE overflow'
  <2> DEFINE l == IF gil = t THEN "return" ELSE "sum"
  <2>1. /\ pc' = [pc EXCEPT ![t] = l] /\ UNCHANGED <<todo, written>>
        /\ l \in {"return", "sum"}
        /\ IF gil = t THEN settled' = TRUE ELSE UNCHANGED settled
    BY <1>4 DEF EncodeVal, Goto
  <2>2. l = "return" => gil = t
    OBVIOUS
  <2>3. l = "return" => written[t] = 0
    BY <1>2, <1>3, <2>2 DEF IInv, CallInv
  <2> HIDE DEF l
  <2>4. /\ pc' \in [Threads -> Labels] /\ pc'[t] = l
        /\ \A u \in Threads : u # t => pc'[u] = "idle"
        /\ LockInv' /\ DataInv' /\ ShotInv'
        /\ EnvelopeIsSnapshot'
        /\ settled => overflow'
    BY <1>1, <1>2, <2>1, PutStep
  <2>5. stream' = stream /\ overflow' = TRUE
    BY <1>1, <1>2, <1>4, PutFacts
  <2>6. \A u \in Threads : /\ ~ Encoding(u)' /\ pc'[u] \notin {"val", "store"}
                           /\ InCall(u)' => u = t /\ l = "sum"
    BY <2>1, <2>4 DEF Encoding, InCall
  <2>7. TypeInv'
    <3>1. overflow' \in BOOLEAN
      BY <2>5, Zenon
    <3>2. settled' \in BOOLEAN
      <4>1. settled \in BOOLEAN
        BY DEF IInv, TypeInv, TypeOK
      <4>2. CASE gil = t
        BY <2>1, <4>2, Zenon
      <4>3. CASE gil # t
        BY <2>1, <4>1, <4>3, Zenon
      <4> QED
        BY <4>2, <4>3
    <3>3. UNCHANGED <<stream, count, gil, lock, call, todo, written, seen, shot, calls>>
      BY <1>1, <2>1, <2>5
    <3> QED
      BY <2>4, <3>1, <3>2, <3>3 DEF IInv, TypeInv, TypeOK
  <2>8. CallInv' /\ ParityInv'
    BY <1>4, <2>6 DEF CallInv, ParityInv
  <2>9. CountInv'
    <3>1. l = "sum" => InCall(t)'
      BY <2>4 DEF InCall
    <3>2. l = "return" => count = Len(stream) \div 2
      <4>1. count \in Nat
        BY DEF IInv, TypeInv, TypeOK
      <4> QED
        BY <1>3, <2>3, <4>1
    <3> QED
      BY <1>1, <1>3, <2>1, <2>5, <2>6, <3>1, <3>2 DEF CountInv
  <2>10. SettledInv'
    <3>1. l = "sum" => UNCHANGED settled
      BY <2>1 DEF l
    <3>2. ASSUME NEW u \in Threads, InCall(u)', settled' PROVE written'[u] = 0
      <4>1. u = t /\ settled
        BY <2>6, <3>1, <3>2
      <4> QED
        BY <1>2, <2>1, <4>1 DEF IInv, SettledInv
    <3> QED
      BY <2>5, <3>2 DEF SettledInv
  <2>11. StreamLayout'
    BY <2>5 DEF IInv, StreamLayout
  <2> QED
    BY <2>4, <2>7, <2>8, <2>9, <2>10, <2>11 DEF IInv
<1>5. CASE ~ overflow'
  <2> DEFINE l == IF todo[t] = 1 THEN "sum" ELSE "ts"
  <2>1. /\ pc' = [pc EXCEPT ![t] = l] /\ l \in {"ts", "sum"} /\ UNCHANGED settled
        /\ written' = [written EXCEPT ![t] = @ + 1]
        /\ todo' = [todo EXCEPT ![t] = @ - 1]
    BY <1>5 DEF EncodeVal, Goto
  <2>2. l = "ts" => todo[t] > 1 /\ gil # t
    BY <1>2, <1>3 DEF IInv, CallInv
  <2> HIDE DEF l
  <2>3. /\ pc' \in [Threads -> Labels] /\ pc'[t] = l
        /\ \A u \in Threads : u # t => pc'[u] = "idle"
        /\ LockInv' /\ DataInv' /\ ShotInv'
        /\ EnvelopeIsSnapshot'
        /\ settled => overflow'
    BY <1>1, <1>2, <2>1, PutStep
  <2>4. /\ stream' \in Seq(Codes) /\ Len(stream') <= Capacity
        /\ Len(stream') % 2 = 0
        /\ count + written[t] + 1 = Len(stream') \div 2
        /\ StreamLayout'
    BY <1>5, PointWritten
  <2>5. /\ written' \in [Threads -> Nat] /\ todo' \in [Threads -> Nat]
        /\ written'[t] = written[t] + 1 /\ todo'[t] = todo[t] - 1
    BY <1>3, <2>1
  <2>6. l \in {"ts", "sum"}
    BY <2>1 DEF l
  <2>7. \A u \in Threads : /\ pc'[u] \notin {"val", "store"}
                           /\ InCall(u)' => u = t
                           /\ Encoding(u)' => u = t /\ l = "ts"
    BY <2>3, <2>6 DEF Encoding, InCall
  <2>8. overflow' = FALSE
    BY <1>1, <1>2, <1>5, PutFacts
  <2>9. TypeInv'
    <3>1. overflow' \in BOOLEAN
      BY <2>8, Zenon
    <3>2. \A u \in Threads : todo'[u] >= 0 /\ written'[u] >= 0
      BY <2>5
    <3>3. settled' \in BOOLEAN
      BY <2>1 DEF IInv, TypeInv, TypeOK
    <3>4. UNCHANGED <<count, gil, lock, call, seen, shot, calls>>
      BY <1>1
    <3> QED
      BY <2>3, <2>4, <2>5, <3>1, <3>2, <3>3, <3>4 DEF IInv, TypeInv, TypeOK
  <2>10. CallInv'
    <3>1. l = "ts" => todo'[t] > 0 /\ written'[t] + todo'[t] <= MaxBatch + 1
      BY <1>3, <2>2, <2>5
    <3>2. /\ l = "ts" => gil' # t
          /\ call'[t] = calls' /\ calls' > 0
      BY <1>1, <1>3, <2>2
    <3> QED
      BY <2>7, <3>1, <3>2 DEF CallInv
  <2>11. ParityInv'
    BY <2>4, <2>7 DEF ParityInv
  <2>12. CountInv'
    <3>1. InCall(t)'
      BY <2>3, <2>6 DEF InCall
    <3>2. count + written'[t] = Len(stream') \div 2
      <4>1. count \in Nat
        BY DEF IInv, TypeInv, TypeOK
      <4> QED
        BY <1>3, <2>4, <2>5, <4>1
    <3> QED
      BY <1>1, <2>7, <3>1, <3>2 DEF CountInv
  <2>13. SettledInv'
    BY <2>1, <2>3, <2>8 DEF SettledInv
  <2> QED
    BY <2>3, <2>4, <2>9, <2>10, <2>11, <2>12, <2>13 DEF IInv
<1> QED
  BY <1>4, <1>5

-----------------------------------------------------------------------------
(* A call begins: nothing of it is in the stream. *)
LEMMA CallBegins ==
  ASSUME IInv, NEW t \in Threads, NEW l \in {"ts", "sum"}, NEW n \in 0 .. MaxBatch + 1,
         l = "ts" => n > 0, Call(t, l, n), gil' \in Threads \cup {None}, gil' = t => n = 1
  PROVE  IInv'
<1>1. /\ pc[t] = "enter" /\ pc' = [pc EXCEPT ![t] = l] /\ calls < MaxCalls
      /\ calls' = calls + 1
      /\ call' = [call EXCEPT ![t] = calls + 1]
      /\ todo' = [todo EXCEPT ![t] = n]
      /\ written' = [written EXCEPT ![t] = 0]
      /\ UNCHANGED <<stream, overflow, count, lock, seen, shot, settled>>
  BY DEF Call, Goto, object
<1>2. /\ pc \in [Threads -> Labels] /\ calls \in Nat /\ MaxCalls \in Nat /\ MaxBatch \in Nat
      /\ call \in [Threads -> Nat] /\ todo \in [Threads -> Nat] /\ written \in [Threads -> Nat]
      /\ count \in Nat
  <2>1. MaxCalls \in Nat /\ MaxBatch \in Nat
    BY SharedAssumption
  <2>2. pc \in [Threads -> Labels] /\ count \in Nat
    BY DEF IInv, TypeInv, TypeOK
  <2>3. /\ calls \in Nat /\ call \in [Threads -> Nat] /\ todo \in [Threads -> Nat]
        /\ written \in [Threads -> Nat]
    BY <2>1 DEF IInv, TypeInv
  <2> QED
    BY <2>1, <2>2, <2>3
<1>3. \A u \in Threads : u # t => pc[u] = "idle"
  BY <1>1, Alone
<1>4. \A u \in Threads : ~ InCall(u) /\ ~ Encoding(u) /\ pc[u] # "val"
  BY <1>1, <1>3 DEF InCall, Encoding
<1>5. /\ pc' \in [Threads -> Labels] /\ pc'[t] = l
      /\ \A u \in Threads : u # t => pc'[u] = "idle"
  BY <1>1, <1>2, <1>3 DEF Labels
<1>6. InCall(t)' /\ \A u \in Threads : /\ (InCall(u)' => u = t)
                                       /\ (Encoding(u)' => u = t /\ l = "ts")
                                       /\ pc'[u] \notin {"val", "store", "bytes"}
  BY <1>5 DEF InCall, Encoding
<1>7. /\ n \in Nat /\ calls' \in 0 .. MaxCalls
      /\ call' \in [Threads -> Nat] /\ todo' \in [Threads -> Nat] /\ written' \in [Threads -> Nat]
      /\ call'[t] = calls' /\ todo'[t] = n /\ written'[t] = 0
  BY <1>1, <1>2
<1>8. TypeInv'
  <2>1. \A u \in Threads : todo'[u] >= 0 /\ written'[u] >= 0
    BY <1>7
  <2>2. TypeOK'
    BY <1>1, <1>5, <2>1 DEF IInv, TypeInv, TypeOK
  <2>3. seen' \in [Threads -> Nat] /\ shot' \in Shots
    BY <1>1 DEF IInv, TypeInv, Shots, Codes
  <2> QED
    BY <1>7, <2>2, <2>3 DEF TypeInv
<1>9. LockInv'
  BY <1>1, <1>3, <1>5 DEF IInv, LockInv
<1>10. CallInv'
  BY <1>1, <1>2, <1>6, <1>7 DEF CallInv
<1>11. ParityInv'
  BY <1>1, <1>4, <1>6 DEF IInv, ParityInv
<1>12. CountInv'
  <2>1. count + written'[t] = Len(stream) \div 2
    BY <1>2, <1>4, <1>7 DEF IInv, CountInv
  <2> QED
    BY <1>1, <1>6, <2>1 DEF CountInv
<1>13. SettledInv'
  BY <1>1, <1>6, <1>7 DEF IInv, SettledInv
<1>14. \A i \in 1 .. Len(stream) : stream[i].call <= calls /\ stream[i].call \in Nat
  <2>1. ASSUME NEW i \in 1 .. Len(stream) PROVE stream[i].call \in Nat
    <3>1. stream \in Seq(Codes)
      BY DEF IInv, TypeInv, TypeOK
    <3>2. stream[i] \in Codes
      BY <3>1, ElementOfSeq
    <3> QED
      BY <3>2 DEF Codes
  <2> QED
    BY <2>1 DEF IInv, DataInv
<1>15. DataInv'
  BY <1>1, <1>2, <1>14 DEF DataInv
<1>16. ShotInv'
  <2>1. Len(shot.stream) <= Len(stream)
    BY DEF IInv, ShotInv
  <2>2. Len(shot.stream) \in Nat /\ Len(stream) \in Nat
    <3>1. stream \in Seq(Codes) /\ shot \in Shots
      BY DEF IInv, TypeInv, TypeOK
    <3> QED
      BY <3>1, LenProperties DEF Shots
  <2>3. ASSUME NEW i \in 1 .. Len(shot.stream) PROVE stream[i].call # calls'
    <3>1. i \in 1 .. Len(stream)
      BY <2>1, <2>2
    <3>2. stream[i].call <= calls /\ stream[i].call \in Nat
      BY <1>14, <3>1
    <3>3. calls \in Nat /\ calls' = calls + 1
      BY <1>1, <1>2
    <3> QED
      BY <3>2, <3>3
  <2> QED
    BY <1>1, <1>6, <2>1, <2>3 DEF ShotInv
<1>17. (StreamLayout /\ EnvelopeIsSnapshot)'
  BY <1>1 DEF IInv, StreamLayout, EnvelopeIsSnapshot
<1> QED
  BY <1>8, <1>9, <1>10, <1>11, <1>12, <1>13, <1>15, <1>16, <1>17 DEF IInv

LEMMA CompressInv ==
  ASSUME IInv, NEW t \in Threads, Compress(t)
  PROVE  IInv'
<1>1. gil' = t /\ Call(t, "ts", 1) /\ 1 \in 0 .. MaxBatch + 1
  BY SharedAssumption DEF Compress
<1> QED
  BY <1>1, CallBegins

LEMMA CompressBatchInv ==
  ASSUME IInv, NEW t \in Threads, NEW n \in 0 .. MaxBatch, CompressBatch(t, n)
  PROVE  IInv'
<1> DEFINE l == IF n = 0 THEN "sum" ELSE "ts"
<1>1. /\ gil' = None /\ gil' # t /\ Call(t, l, n)
      /\ l \in {"ts", "sum"}
  BY SharedAssumption DEF CompressBatch
<1>2. n \in 0 .. MaxBatch + 1 /\ (l = "ts" => n > 0)
  BY SharedAssumption
<1> HIDE DEF l
<1> QED
  BY <1>1, <1>2, CallBegins

(* The steps at the end of a call, and of get_bytes. *)
LEMMA LoadCountInv ==
  ASSUME IInv, NEW t \in Threads, LoadCount(t)
  PROVE  IInv'
<1>1. /\ pc[t] = "sum" /\ pc' = [pc EXCEPT ![t] = "store"]
      /\ seen' = [seen EXCEPT ![t] = count]
      /\ UNCHANGED <<stream, overflow, count, gil, lock, call, todo, written, shot,
                     calls, settled>>
  BY DEF LoadCount, Goto, object, locks, history
<1>2. \A u \in Threads : u # t => pc[u] = "idle"
  BY <1>1, Alone
<1>3. /\ pc' \in [Threads -> Labels] /\ pc'[t] = "store" /\ seen'[t] = count
      /\ \A u \in Threads : u # t => pc'[u] = "idle"
  BY <1>1, <1>2 DEF IInv, TypeInv, TypeOK, Labels
<1>4. TypeInv'
  BY <1>1, <1>3 DEF IInv, TypeInv, TypeOK
<1>5. LockInv'
  BY <1>1, <1>2, <1>3 DEF IInv, LockInv
<1>6. /\ InCall(t) /\ InCall(t)'
      /\ \A u \in Threads : ~ Encoding(u)' /\ pc'[u] \notin {"val", "bytes"} /\ pc[u] # "val"
      /\ \A u \in Threads : InCall(u)' => u = t
  BY <1>1, <1>2, <1>3 DEF InCall, Encoding
<1>7. CallInv' /\ ParityInv' /\ DataInv' /\ ShotInv' /\ SettledInv'
  BY <1>1, <1>6 DEF IInv, CallInv, ParityInv, DataInv, ShotInv, SettledInv
<1>8. CountInv'
  BY <1>1, <1>3, <1>6 DEF IInv, CountInv
<1>9. (StreamLayout /\ EnvelopeIsSnapshot)'
  BY <1>1 DEF IInv, StreamLayout, EnvelopeIsSnapshot
<1> QED
  BY <1>4, <1>5, <1>7, <1>8, <1>9 DEF IInv

LEMMA StoreCountInv ==
  ASSUME IInv, NEW t \in Threads, StoreCount(t)
  PROVE  IInv'
<1> DEFINE l == IF gil = t THEN "return" ELSE "regain"
<1>1. /\ pc[t] = "store" /\ pc' = [pc EXCEPT ![t] = l] /\ l \in {"return", "regain"}
      /\ count' = seen[t] + written[t]
      /\ settled' = overflow
      /\ UNCHANGED <<stream, overflow, gil, lock, call, todo, written, seen, shot, calls>>
  BY DEF StoreCount, Goto, locks
<1> HIDE DEF l
<1>2. \A u \in Threads : u # t => pc[u] = "idle"
  BY <1>1, Alone
<1>3. /\ pc' \in [Threads -> Labels] /\ pc'[t] = l
      /\ \A u \in Threads : u # t => pc'[u] = "idle"
  BY <1>1, <1>2 DEF IInv, TypeInv, TypeOK, Labels
<1>4. /\ count' = Len(stream) \div 2 /\ count' \in Nat
  <2>1. InCall(t)
    BY <1>1 DEF InCall
  <2>2. seen[t] = count /\ count + written[t] = Len(stream) \div 2
    BY <1>1, <2>1 DEF IInv, CountInv
  <2>3. count \in Nat /\ written[t] \in Nat
    BY DEF IInv, TypeInv, TypeOK
  <2> QED
    BY <1>1, <2>2, <2>3
<1>5. TypeInv'
  BY <1>1, <1>3, <1>4 DEF IInv, TypeInv, TypeOK
<1>6. LockInv'
  BY <1>1, <1>2, <1>3 DEF IInv, LockInv
<1>7. /\ \A u \in Threads : /\ ~ Encoding(u)' /\ ~ InCall(u)'
                            /\ pc'[u] \notin {"val", "store", "bytes"} /\ pc[u] # "val"
  BY <1>1, <1>2, <1>3 DEF InCall, Encoding
<1>8. CallInv' /\ ParityInv' /\ DataInv' /\ ShotInv' /\ SettledInv'
  BY <1>1, <1>7 DEF IInv, CallInv, ParityInv, DataInv, ShotInv, SettledInv
<1>9. CountInv'
  BY <1>1, <1>4, <1>7 DEF CountInv
<1>10. (StreamLayout /\ EnvelopeIsSnapshot)'
  BY <1>1 DEF IInv, StreamLayout, EnvelopeIsSnapshot
<1> QED
  BY <1>5, <1>6, <1>8, <1>9, <1>10 DEF IInv

LEMMA ReadCountInv ==
  ASSUME IInv, NEW t \in Threads, ReadCount(t)
  PROVE  IInv'
<1>1. /\ pc[t] = "bytes" /\ pc' = [pc EXCEPT ![t] = "return"]
      /\ shot' = [count |-> count, stream |-> SubSeq(stream, 1, seen[t])]
      /\ UNCHANGED <<stream, overflow, count, gil, lock, call, todo, written, seen,
                     calls, settled>>
  BY DEF ReadCount, Goto, object, locks, history
<1>2. \A u \in Threads : u # t => pc[u] = "idle"
  BY <1>1, Alone
<1>3. /\ pc' \in [Threads -> Labels] /\ pc'[t] = "return"
      /\ \A u \in Threads : u # t => pc'[u] = "idle"
  BY <1>1, <1>2 DEF IInv, TypeInv, TypeOK, Labels
<1>4. \A u \in Threads : /\ ~ Encoding(u)' /\ ~ InCall(u)' /\ ~ InCall(u)
                         /\ pc'[u] \notin {"val", "store", "bytes"} /\ pc[u] # "val"
  BY <1>1, <1>2, <1>3 DEF InCall, Encoding
<1>5. seen[t] = Len(stream) /\ stream \in Seq(Codes) /\ count \in Nat
  BY <1>1 DEF IInv, ShotInv, TypeInv, TypeOK
<1>6. /\ SubSeq(stream, 1, seen[t]) \in Seq(Codes)
      /\ Len(SubSeq(stream, 1, seen[t])) = Len(stream)
  <2>1. Len(stream) \in Nat /\ \A i \in 1 .. Len(stream) : stream[i] \in Codes
    BY <1>5, LenProperties, ElementOfSeq
  <2> QED
    BY <1>5, <2>1, SubSeqProperties
<1>7. shot' \in Shots /\ shot'.count = count /\ Len(shot'.stream) = Len(stream)
  BY <1>1, <1>5, <1>6 DEF Shots
<1>8. TypeInv'
  BY <1>1, <1>3, <1>7 DEF IInv, TypeInv, TypeOK
<1>9. LockInv'
  BY <1>1, <1>2, <1>3 DEF IInv, LockInv
<1>10. CallInv' /\ ParityInv' /\ DataInv' /\ SettledInv' /\ CountInv'
  BY <1>1, <1>4 DEF IInv, CallInv, ParityInv, DataInv, SettledInv, CountInv
<1>11. UNCHANGED <<stream, seen, calls>>
  BY <1>1
<1>12. ShotInv'
  <2>1. Len(stream) \in Nat
    BY <1>5, LenProperties
  <2> QED
    BY <1>4, <1>7, <1>11, <2>1 DEF ShotInv
<1>13. EnvelopeIsSnapshot'
  <2>1. count = Len(stream) \div 2
    BY <1>4 DEF IInv, CountInv
  <2>2. Len(stream) \in Nat
    BY <1>5, LenProperties
  <2> QED
    BY <1>7, <1>11, <2>1, <2>2 DEF EnvelopeIsSnapshot
<1>14. StreamLayout'
  BY <1>1 DEF IInv, StreamLayout
<1> QED
  BY <1>8, <1>9, <1>10, <1>12, <1>13, <1>14 DEF IInv

-----------------------------------------------------------------------------
LEMMA NextInv == IInv /\ CallerLocks /\ [Next]_vars => IInv'
<1> SUFFICES ASSUME IInv, CallerLocks, [Next]_vars PROVE IInv'
  OBVIOUS
<1>1. CASE Next
  <2>1. PICK t \in Threads : Step(t)
    BY <1>1 DEF Next
  <2>2. CASE Begin(t)
    BY <2>2, BeginInv
  <2>3. CASE Compress(t)
    BY <2>3, CompressInv
  <2>4. CASE \E n \in 0 .. MaxBatch : CompressBatch(t, n)
    BY <2>4, CompressBatchInv
  <2>5. CASE EncodeTs(t)
    BY <2>5, EncodeTsInv
  <2>6. CASE EncodeVal(t)
    BY <2>6, EncodeValInv
  <2>7. CASE LoadCount(t)
    BY <2>7, LoadCountInv
  <2>8. CASE StoreCount(t)
    BY <2>8, StoreCountInv
  <2>9. CASE Regain(t)
    BY <2>9, RegainInv
  <2>10. CASE Return(t)
    BY <2>10, ReturnInv
  <2>11. CASE GetBytes(t)
    BY <2>11, GetBytesInv
  <2>12. CASE ReadCount(t)
    BY <2>12, ReadCountInv
  <2>13. CASE Size(t) \/ Unequal(t)
    BY <2>13, OtherInv
  <2> QED
    BY <2>1, <2>2, <2>3, <2>4, <2>5, <2>6, <2>7, <2>8, <2>9, <2>10, <2>11, <2>12, <2>13
       DEF Step
<1>2. CASE UNCHANGED vars
  <2>1. UNCHANGED <<stream, overflow, count, gil, lock, pc, call, todo, written, seen, shot,
                    calls, settled>>
    BY <1>2 DEF vars, object, locks, threads, history
  <2>2. (TypeInv /\ LockInv /\ CallInv /\ ParityInv)'
    BY <2>1 DEF IInv, TypeInv, TypeOK, LockInv, CallInv, ParityInv, Encoding
  <2>3. (CountInv /\ SettledInv /\ DataInv /\ ShotInv)'
    BY <2>1 DEF IInv, CountInv, SettledInv, DataInv, ShotInv, Encoding, InCall
  <2>4. (StreamLayout /\ EnvelopeIsSnapshot)'
    BY <2>1 DEF IInv, StreamLayout, EnvelopeIsSnapshot
  <2> QED
    BY <2>2, <2>3, <2>4 DEF IInv
<1> QED
  BY <1>1, <1>2

LEMMA Invariant == ASSUME CallerLocks PROVE Spec => []IInv
<1>1. CallerLocks
  OBVIOUS
<1>2. IInv /\ [Next]_vars => IInv'
  BY <1>1, NextInv
<1> QED
  BY <1>2, InitInv, PTL DEF Spec

-----------------------------------------------------------------------------
(* The object, the locks and the threads stay within their types: the stream *)
(* never outgrows the buffer, however many threads append to it.             *)
THEOREM TypeCorrect == ASSUME CallerLocks PROVE Spec => []TypeOK
<1>1. IInv => TypeOK
  BY DEF IInv, TypeInv
<1> QED
  BY <1>1, Invariant, PTL

(* Calls of different threads never mix their codes: each timestamp in the   *)
(* stream is followed by the value of the same point.                        *)
THEOREM LayoutKept == ASSUME CallerLocks PROVE Spec => []StreamLayout
<1>1. IInv => StreamLayout
  BY DEF IInv
<1> QED
  BY <1>1, Invariant, PTL

(* What get_bytes returns has in it the count of its own stream, and whole   *)
(* batches.                                                                  *)
THEOREM EnvelopesAreSnapshots == ASSUME CallerLocks PROVE Spec => []EnvelopeIsSnapshot
<1>1. IInv => EnvelopeIsSnapshot
  BY DEF IInv
<1> QED
  BY <1>1, Invariant, PTL

-----------------------------------------------------------------------------
(* The points that the first 2 n codes of a stream are. *)
Points == {[c EXCEPT !.kind = "point"] : c \in Codes}
PointsOf(s, n) == [i \in 1 .. n |-> [s[2 * i] EXCEPT !.kind = "point"]]

LEMMA PointsOfSeq ==
  ASSUME NEW s \in Seq(Codes), NEW n \in Nat, 2 * n <= Len(s)
  PROVE  /\ PointsOf(s, n) \in Seq(Points)
         /\ Len(PointsOf(s, n)) = n
<1>1. Len(s) \in Nat
  BY LenProperties
<1>2. ASSUME NEW i \in 1 .. n PROVE [s[2 * i] EXCEPT !.kind = "point"] \in Points
  <2>1. 2 * i \in 1 .. Len(s)
    BY <1>1
  <2>2. s[2 * i] \in Codes
    BY <2>1, ElementOfSeq
  <2> QED
    BY <2>2 DEF Points
<1>3. PointsOf(s, n) \in [1 .. n -> Points]
  BY <1>2 DEF PointsOf
<1> HIDE DEF PointsOf
<1> QED
  BY <1>3

(* What is appended to a stream leaves the points at its begin alone. *)
LEMMA PointsStay ==
  ASSUME NEW s \in Seq(Codes), NEW r, NEW n \in Nat, 2 * n <= Len(s),
         \A i \in 1 .. Len(s) : r[i] = s[i]
  PROVE  PointsOf(r, n) = PointsOf(s, n)
<1>1. Len(s) \in Nat
  BY LenProperties
<1>2. ASSUME NEW i \in 1 .. n PROVE r[2 * i] = s[2 * i]
  <2>1. 2 * i \in 1 .. Len(s)
    BY <1>1
  <2> QED
    BY <2>1
<1> QED
  BY <1>2 DEF PointsOf

(* Fewer points of a stream, and those behind them, are its points. *)
LEMMA PointsJoin ==
  ASSUME NEW s \in Seq(Codes), NEW n \in Nat, NEW m \in Nat, n <= m, 2 * m <= Len(s)
  PROVE  PointsOf(s, m) = PointsOf(s, n) \o SubSeq(PointsOf(s, m), n + 1, m)
<1> DEFINE p == PointsOf(s, n)
           q == PointsOf(s, m)
           e == SubSeq(q, n + 1, m)
<1>1. Len(s) \in Nat
  BY LenProperties
<1>2. p \in Seq(Points) /\ Len(p) = n /\ q \in Seq(Points) /\ Len(q) = m
  <2>1. 2 * n <= Len(s)
    BY <1>1
  <2> QED
    BY <2>1, PointsOfSeq
<1>3. \A i \in 1 .. n : p[i] = q[i]
  BY DEF PointsOf
<1> HIDE DEF p, q
<1>4. \A i \in n + 1 .. m : q[i] \in Points
  <2>1. ASSUME NEW i \in n + 1 .. m PROVE i \in 1 .. Len(q)
    BY <1>2
  <2> QED
    BY <1>2, <2>1, ElementOfSeq
<1>5. /\ e \in Seq(Points) /\ Len(e) = m - n
      /\ \A i \in 1 .. m - n : e[i] = q[n + i]
  <2>1. /\ e \in Seq(Points)
        /\ Len(e) = IF n + 1 <= m THEN m - (n + 1) + 1 ELSE 0
        /\ \A i \in 1 .. m - (n + 1) + 1 : e[i] = q[(n + 1) + i - 1]
    BY <1>4, SubSeqProperties
  <2> HIDE DEF e
  <2>2. \A i \in 1 .. m - n : (n + 1) + i - 1 = n + i /\ i \in 1 .. m - (n + 1) + 1
    OBVIOUS
  <2> QED
    BY <2>1, <2>2
<1> HIDE DEF e
<1>6. /\ p \o e \in Seq(Points)
      /\ Len(p \o e) = Len(p) + Len(e)
      /\ \A i \in 1 .. Len(p) + Len(e) :
           (p \o e)[i] = IF i <= Len(p) THEN p[i] ELSE e[i - Len(p)]
  BY <1>2, <1>5, ConcatProperties, Zenon
<1> DEFINE j == p \o e
<1>7. j \in Seq(Points) /\ Len(j) = Len(p) + Len(e)
      /\ \A i \in 1 .. Len(p) + Len(e) : j[i] = IF i <= Len(p) THEN p[i] ELSE e[i - Len(p)]
  BY <1>6
<1> HIDE DEF j
<1>8. Len(j) = m /\ \A i \in 1 .. m : j[i] = q[i]
  <2>1. Len(j) = m
    BY <1>2, <1>5, <1>7
  <2>2. ASSUME NEW i \in 1 .. m PROVE j[i] = q[i]
    <3>1. j[i] = IF i <= n THEN p[i] ELSE e[i - n]
      BY <1>2, <1>5, <1>7
    <3>2. CASE i <= n
      BY <1>3, <3>1, <3>2
    <3>3. CASE i > n
      <4>1. i - n \in 1 .. m - n /\ n + (i - n) = i
        BY <3>3
      <4> QED
        BY <1>5, <3>1, <3>3, <4>1
    <3> QED
      BY <3>2, <3>3
  <2> QED
    BY <2>1, <2>2
<1>9. j = q
  BY <1>2, <1>7, <1>8, SeqEqual
<1> QED
  BY <1>9 DEF j, p, q, e

(* The count never runs ahead of the stream. *)
LEMMA CountInStream ==
  ASSUME IInv
  PROVE  stream \in Seq(Codes) /\ count \in Nat /\ 2 * count <= Len(stream)
<1>1. stream \in Seq(Codes) /\ Len(stream) \in Nat /\ count \in Nat
  BY LenProperties DEF IInv, TypeInv, TypeOK
<1>2. CASE \E t \in Threads : InCall(t)
  <2>1. PICK t \in Threads : count + written[t] = Len(stream) \div 2
    BY <1>2 DEF IInv, CountInv
  <2>2. written[t] \in Nat
    BY DEF IInv, TypeInv
  <2> QED
    BY <1>1, <2>1, <2>2
<1>3. CASE count = Len(stream) \div 2
  BY <1>1, <1>3
<1> QED
  BY <1>1, <1>2, <1>3 DEF IInv, CountInv

LEMMA CountedPoints == Counted = PointsOf(stream, count)
BY DEF Counted, PointsOf

(* The points that have been counted stay as they are behind a longer stream. *)
LEMMA CountedStays ==
  ASSUME IInv, UNCHANGED count, \A i \in 1 .. Len(stream) : stream'[i] = stream[i]
  PROVE  Counted' = Counted
<1>1. Counted = PointsOf(stream, count) /\ Counted' = PointsOf(stream', count)
  BY DEF Counted, PointsOf
<1> QED
  BY <1>1, CountInStream, PointsStay

(* A call that writes takes effect where it adds to the count. *)
LEMMA StoreCountAccepts ==
  ASSUME IInv, NEW t \in Threads, StoreCount(t)
  PROVE  Log!Accept
<1> DEFINE ps == SubSeq(PointsOf(stream, count'), count + 1, count')
<1>1. /\ count' = seen[t] + written[t] /\ settled' = overflow /\ pc[t] = "store"
      /\ stream' = stream
  BY DEF StoreCount
<1>2. /\ stream \in Seq(Codes) /\ Len(stream) \in Nat /\ count \in Nat
      /\ written[t] \in Nat /\ overflow \in BOOLEAN /\ settled \in BOOLEAN
  BY LenProperties DEF IInv, TypeInv, TypeOK
<1>3. InCall(t)
  BY <1>1 DEF InCall
<1>4. seen[t] = count /\ count + written[t] = Len(stream) \div 2
  BY <1>1, <1>3 DEF IInv, CountInv
<1>5. (settled => overflow) /\ (settled => written[t] = 0)
  BY <1>3 DEF IInv, SettledInv
<1>6. /\ count' \in Nat /\ count <= count' /\ 2 * count <= Len(stream)
      /\ 2 * count' <= Len(stream)
  BY <1>1, <1>2, <1>4
<1>7. PointsOf(stream, count') = PointsOf(stream, count) \o ps
  BY <1>2, <1>6, PointsJoin
<1>8. Counted = PointsOf(stream, count) /\ Counted' = PointsOf(stream, count')
  BY <1>1 DEF Counted, PointsOf
<1>9. Len(Counted) = count /\ Len(Counted') = count'
  BY <1>2, <1>6, <1>8, PointsOfSeq
<1>10. settled => ps = << >>
  <2>1. ASSUME settled PROVE count' < count + 1
    BY <1>1, <1>2, <1>4, <1>5, <2>1
  <2>2. count + 1 \in Int /\ count' \in Int
    BY <1>2, <1>6
  <2>3. count' < count + 1 => ps = << >>
    <3> DEFINE q == PointsOf(stream, count')
               a == count + 1
               b == count'
    <3>1. a \in Int /\ b \in Int
      BY <2>2
    <3> HIDE DEF q, a, b
    <3>2. b < a => SubSeq(q, a, b) = << >>
      BY <3>1, SubSeqEmpty
    <3> QED
      BY <3>2 DEF q, a, b
  <2> QED
    BY <2>1, <2>3
<1>11. ps = SubSeq(Counted', Len(Counted) + 1, Len(Counted'))
  BY <1>8, <1>9
<1>12. Counted' = Counted \o ps
  BY <1>7, <1>8
<1>13. settled' = (settled \/ overflow)
  BY <1>1, <1>2, <1>5, Zenon
<1> HIDE DEF ps
<1>14. settled' = (settled \/ TRUE) \/ settled' = (settled \/ FALSE)
  BY <1>2, <1>13, Zenon
<1>15. Log!MayTake([log |-> Counted, full |-> settled], ps)
  BY <1>10 DEF Log!MayTake
<1>16. [log |-> Counted', full |-> settled'] \in
         {Log!Taken([log |-> Counted, full |-> settled], ps, FALSE),
          Log!Taken([log |-> Counted, full |-> settled], ps, TRUE)}
  BY <1>12, <1>14 DEF Log!Taken
<1> QED
  BY <1>11, <1>15, <1>16 DEF Log!Accept

(* compress that throws takes effect at the overflow: it accepts nothing. *)
LEMMA EncodeValAccepts ==
  ASSUME IInv, NEW t \in Threads, EncodeVal(t)
  PROVE  Log!Accept \/ UNCHANGED Log!vars
<1>1. Encoding(t) /\ Put(t, "val") /\ count' = count
  BY DEF EncodeVal, Encoding
<1>2. \A i \in 1 .. Len(stream) : stream'[i] = stream[i]
  BY <1>1, PutFacts
<1>3. Counted' = Counted
  BY <1>1, <1>2, CountedStays
<1>4. settled' = TRUE \/ settled' = settled
  BY DEF EncodeVal
<1>5. CASE settled' = settled
  BY <1>3, <1>5 DEF Log!vars
<1>6. CASE settled' = TRUE
  <2> DEFINE ps == SubSeq(Counted', Len(Counted) + 1, Len(Counted'))
  <2>1. Counted \in Seq(Points) /\ Len(Counted) \in Nat
    BY CountInStream, PointsOfSeq, CountedPoints
  <2>2. ps = << >>
    BY <1>3, <2>1, SubSeqEmpty
  <2>3. Counted \o << >> = Counted
    BY <2>1, ConcatEmptySeq
  <2> HIDE DEF ps
  <2>4. [log |-> Counted', full |-> settled'] =
          Log!Taken([log |-> Counted, full |-> settled], ps, TRUE)
    BY <1>3, <1>6, <2>2, <2>3 DEF Log!Taken
  <2>5. Log!MayTake([log |-> Counted, full |-> settled], ps)
    BY <2>2 DEF Log!MayTake
  <2> QED
    BY <2>4, <2>5 DEF Log!Accept, ps
<1> QED
  BY <1>4, <1>5, <1>6

LEMMA OtherStepsStutter ==
  ASSUME IInv, UNCHANGED <<count, settled>>,
         \A i \in 1 .. Len(stream) : stream'[i] = stream[i]
  PROVE  UNCHANGED Log!vars
BY CountedStays DEF Log!vars

(* The threads' calls are the calls of one compressor, one after the other:  *)
(* each appends all its points at one time, none of them once a point has    *)
(* been refused.                                                             *)
THEOREM CallsAreSerial == ASSUME CallerLocks PROVE Spec => ImplementsPointLog
<1>1. Init => Log!Init
  <2> SUFFICES ASSUME Init PROVE Log!Init
    OBVIOUS
  <2>1. count = 0 /\ stream \in Seq(Codes) /\ Len(stream) = 0 /\ settled = FALSE
    BY EmptySeq DEF Init
  <2>2. Counted = PointsOf(stream, 0)
    BY <2>1 DEF Counted, PointsOf
  <2>3. Counted \in Seq(Points) /\ Len(Counted) = 0
    <3> DEFINE n == 0
    <3>1. stream \in Seq(Codes) /\ n \in Nat /\ 2 * n <= Len(stream)
      BY <2>1
    <3> HIDE DEF n
    <3>2. PointsOf(stream, n) \in Seq(Points) /\ Len(PointsOf(stream, n)) = n
      BY <3>1, PointsOfSeq
    <3> QED
      BY <2>2, <3>2 DEF n
  <2>4. Counted = << >>
    BY <2>3, EmptySeq
  <2> QED
    BY <2>1, <2>4 DEF Log!Init, Log!Empty, Log!NoStream
<1>2. IInv /\ [Next]_vars => [Log!Next]_Log!vars
  <2> SUFFICES ASSUME IInv, [Next]_vars PROVE [Log!Next]_Log!vars
    OBVIOUS
  <2>1. CASE UNCHANGED vars
    BY <2>1, OtherStepsStutter DEF vars, object, history
  <2>2. ASSUME NEW t \in Threads, StoreCount(t) PROVE Log!Next
    BY <2>2, StoreCountAccepts DEF Log!Next
  <2>3. ASSUME NEW t \in Threads, EncodeTs(t) PROVE UNCHANGED Log!vars
    <3>1. Encoding(t) /\ Put(t, "ts") /\ UNCHANGED <<count, settled>>
      BY <2>3 DEF EncodeTs, Encoding, history
    <3>2. \A i \in 1 .. Len(stream) : stream'[i] = stream[i]
      BY <3>1, PutFacts
    <3> QED
      BY <3>1, <3>2, OtherStepsStutter
  <2>4. ASSUME NEW t \in Threads, EncodeVal(t) PROVE [Log!Next]_Log!vars
    BY <2>4, EncodeValAccepts DEF Log!Next
  <2>5. ASSUME NEW t \in Threads,
               \/ Begin(t) \/ Compress(t) \/ \E n \in 0 .. MaxBatch : CompressBatch(t, n)
               \/ LoadCount(t) \/ Regain(t) \/ Return(t) \/ GetBytes(t) \/ ReadCount(t)
               \/ Size(t) \/ Unequal(t)
        PROVE  UNCHANGED Log!vars
    <3>1. UNCHANGED <<stream, count, settled>>
      BY <2>5 DEF Begin, Compress, CompressBatch, Call, LoadCount, Regain, Return, GetBytes,
                  ReadCount, Size, Unequal, Other, object, history
    <3> QED
      BY <3>1, OtherStepsStutter
  <2> QED
    BY <2>1, <2>2, <2>3, <2>4, <2>5 DEF Next, Step
<1> QED
  BY <1>1, <1>2, Invariant, PTL DEF Spec, Log!Spec, ImplementsPointLog
=============================================================================

--------------------------- MODULE EnvelopeProofs ---------------------------
(***************************************************************************)
(* Proofs about Envelope, for every set of points and every bound.         *)
(***************************************************************************)
EXTENDS Envelope, SequenceTheorems, TLAPS

(* One sequence begins with the other, said entry by entry. *)
Agrees(s, t) ==
  /\ Len(s) <= Len(t)
  /\ \A i \in 1 .. Len(s) : s[i] = t[i]

-----------------------------------------------------------------------------
(* The inductive invariant.                                                  *)

(* While series are written, every object that has a stream counts its       *)
(* points, and one that was moved from has none.                             *)
WriterInv ==
  /\ \A s \in Slots : Len(cores[s].log) <= MaxPoints
  /\ Writing => /\ \A s \in handles : counts[s] = Len(cores[s].log)
                /\ \A s \in Slots \ handles : cores[s].log = << >>

Envelopes == [made : {TRUE}, header : BOOLEAN, tag : {0, 1}, count : 0 .. MaxPoints,
              opens : BOOLEAN, points : Seq(Points), spare : 0 .. MostPadding]

(* What is in an envelope is a beginning of what was put there, and padding *)
(* only follows all of it.                                                  *)
StoredInv ==
  /\ whole \in Cores
  /\ fresh \in BOOLEAN
  /\ env \in Envelopes \cup {NoEnvelope}
  /\ env.made => /\ env \in Envelopes
                 /\ env.tag = TagOf(kind)
                 /\ fresh => env.count = Len(whole.log)
                 /\ Agrees(env.points, whole.log)
                 /\ env.spare > 0 => fresh /\ env.points = whole.log

(* Nothing is delivered before a reading has begun; then it is a beginning  *)
(* of what the C decompressor has, which is one for the type of the values, *)
(* and not longer than the count. What remains is what has not been         *)
(* delivered, in C++ with the current point, or less after an exception.    *)
ReaderInv ==
  /\ status = "none" => dec = NoDecoder
  /\ status # "none" => /\ env.made
                        /\ dec \in [lang : Langs, kind : Kinds, count : 0 .. MaxPoints]
  /\ status \notin {"none", "rejected"} => /\ dec.count = env.count
                                           /\ dec.kind = kind
                                           /\ Agrees(out, Available)
                                           /\ Len(out) <= dec.count
  /\ status \in {"none", "rejected", "idle"} => pos = 0 /\ out = << >> /\ ~ raised
  /\ status = "iterating" =>
       /\ pos = Len(out)
       /\ dec.lang = "rust" => left + pos = dec.count
       /\ dec.lang # "rust" => /\ left > 0 /\ left + pos <= dec.count + 1
                               /\ ~ raised => left + pos = dec.count + 1
                               /\ pos > 0 /\ held = out[pos]

IInv == TypeOK /\ WriterInv /\ StoredInv /\ ReaderInv /\ AllOrThrow /\ Interoperable

-----------------------------------------------------------------------------
(* Appending to a sequence, and cutting one. *)
LEMMA SubSeqType ==
  ASSUME NEW S, NEW s \in Seq(S), NEW n \in 0 .. Len(s)
  PROVE  /\ SubSeq(s, 1, n) \in Seq(S)
         /\ Len(SubSeq(s, 1, n)) = n
         /\ \A i \in 1 .. n : SubSeq(s, 1, n)[i] = s[i]
<1>1. \A i \in 1 .. n : s[i] \in S
  BY ElementOfSeq
<1> QED
  BY <1>1, SubSeqProperties

(* What the C decompressor has: the points of the envelope, then padding. *)
LEMMA AvailableType ==
  ASSUME env \in Envelopes, dec.kind = kind
  PROVE  /\ Available \in Seq(Points \cup {Phantom})
         /\ Len(Available) = Len(env.points) + env.spare
         /\ \A i \in 1 .. Len(env.points) : Available[i] = env.points[i]
<1>1. env.points \in Seq(Points) /\ env.spare \in Nat
  BY DEF Envelopes, MostPadding
<1>2. env.points \in Seq(Points \cup {Phantom})
  BY <1>1, SeqMonotonic
<1> DEFINE padding == [i \in 1 .. env.spare |-> Phantom]
<1>3. padding \in Seq(Points \cup {Phantom}) /\ Len(padding) = env.spare
  BY <1>1
<1>4. Available = env.points \o padding
  BY DEF Available
<1> HIDE DEF padding
<1>5. Len(env.points) \in Nat
  BY <1>1, LenProperties
<1>6. /\ Available \in Seq(Points \cup {Phantom})
      /\ Len(Available) = Len(env.points) + Len(padding)
      /\ \A i \in 1 .. Len(env.points) + Len(padding) :
           Available[i] = IF i <= Len(env.points) THEN env.points[i]
                                                 ELSE padding[i - Len(env.points)]
  BY <1>2, <1>3, <1>4, ConcatProperties, Zenon
<1> QED
  BY <1>1, <1>3, <1>5, <1>6

(* A whole envelope has all the points that it counts, and never fewer. *)
LEMMA SeriesDelivered ==
  ASSUME StoredInv, env.made, dec.kind = kind, NEW s \in Seq(Points \cup {Phantom}),
         Agrees(s, Available), Len(s) <= env.count
  PROVE  Agrees(s, whole.log)
<1>1. env \in Envelopes /\ Agrees(env.points, whole.log) /\ (fresh => env.count = Len(whole.log))
      /\ (env.spare > 0 => fresh /\ env.points = whole.log)
  BY DEF StoredInv
<1>2. env.spare \in Nat /\ env.points \in Seq(Points) /\ whole.log \in Seq(Points)
  BY <1>1 DEF Envelopes, StoredInv, MostPadding, Cores
<1>3. Len(s) <= Len(env.points)
  BY <1>1, <1>2, AvailableType DEF Agrees
<1> QED
  BY <1>1, <1>2, <1>3, AvailableType DEF Agrees

-----------------------------------------------------------------------------
(* The initial states satisfy the invariant. *)
LEMMA InitInv == Init => IInv
<1> SUFFICES ASSUME Init PROVE IInv
  OBVIOUS
<1> USE EnvelopeAssumption DEF Init, NoEnvelope, NoDecoder
<1>1. Empty \in Cores /\ Empty.log = << >> /\ Len(Empty.log) = 0
  <2>1. << >> \in Seq(Points) /\ FALSE \in BOOLEAN
    OBVIOUS
  <2> QED
    BY <2>1 DEF Empty, Cores
<1>2. TypeOK
  <2>1. out \in Seq(Points \cup {Phantom}) /\ held \in Points \cup {Phantom}
    OBVIOUS
  <2>2. /\ cores \in [Slots -> Cores] /\ counts \in [Slots -> 0 .. MaxPoints]
        /\ handles \subseteq Slots
    BY <1>1 DEF Slots
  <2>3. left \in 0 .. MaxPoints /\ pos \in 0 .. MaxPoints + MostPadding
    BY DEF MostPadding
  <2>4. lang \in Langs /\ kind \in Kinds
    BY DEF Kinds, KindsIn
  <2> QED
    BY <2>1, <2>2, <2>3, <2>4 DEF TypeOK
<1>3. WriterInv
  <2>1. \A s \in Slots : cores[s] = Empty /\ counts[s] = 0
    OBVIOUS
  <2> QED
    BY <1>1, <1>2, <2>1 DEF WriterInv, TypeOK
<1>4. StoredInv
  BY <1>1 DEF StoredInv
<1>5. ReaderInv /\ AllOrThrow /\ Interoperable
  BY DEF ReaderInv, AllOrThrow, Interoperable
<1> QED
  BY <1>2, <1>3, <1>4, <1>5 DEF IInv

(* What is stored and read does not change while series are written. *)
LEMMA ReadingKept ==
  ASSUME StoredInv, ReaderInv, AllOrThrow, Interoperable, UNCHANGED <<kind, stored, reader>>
  PROVE  StoredInv' /\ ReaderInv' /\ AllOrThrow' /\ Interoperable'
BY DEF StoredInv, ReaderInv, AllOrThrow, Interoperable, Untouched, stored, reader, Available

(* Nor does what is written while it is read. *)
LEMMA WritingKept ==
  ASSUME WriterInv, UNCHANGED <<writer, stored>>
  PROVE  WriterInv'
BY DEF WriterInv, Writing, writer, stored

(* What the C core takes of some points grows its log by their number. *)
LEMMA CoreTakesType ==
  ASSUME TypeOK, NEW s \in Slots, NEW ps \in Seq(Points), NEW n \in 0 .. Len(ps),
         CoreTakes(s, ps, n)
  PROVE  /\ cores' \in [Slots -> Cores]
         /\ Len(cores'[s].log) = Len(cores[s].log) + n
         /\ \A t \in Slots : t # s => cores'[t] = cores[t]
         /\ result' \in {"ok", "overflow", "error"}
<1>1. SubSeq(ps, 1, n) \in Seq(Points) /\ Len(SubSeq(ps, 1, n)) = n
  BY SubSeqType
<1>2. cores[s] \in Cores /\ cores[s].log \in Seq(Points) /\ cores[s].full \in BOOLEAN
  BY DEF TypeOK, Cores
<1>3. /\ cores[s].log \o SubSeq(ps, 1, n) \in Seq(Points)
      /\ Len(cores[s].log \o SubSeq(ps, 1, n)) = Len(cores[s].log) + n
  <2>1. /\ cores[s].log \o SubSeq(ps, 1, n) \in Seq(Points)
        /\ Len(cores[s].log \o SubSeq(ps, 1, n)) = Len(cores[s].log) + Len(SubSeq(ps, 1, n))
    BY <1>1, <1>2, ConcatProperties, Zenon
  <2> QED
    BY <1>1, <2>1
<1> DEFINE core == Taken(cores[s], SubSeq(ps, 1, n), n < Len(ps))
<1>4. core \in Cores /\ core.log = cores[s].log \o SubSeq(ps, 1, n)
  BY <1>2, <1>3 DEF Taken, Cores
<1>5. cores' = [cores EXCEPT ![s] = core] /\ result' \in {"ok", "overflow", "error"}
  BY DEF CoreTakes
<1> HIDE DEF core
<1> QED
  BY <1>3, <1>4, <1>5 DEF TypeOK

(* Whatever number of points the core takes, the object counts that number. *)
LEMMA TakenInv ==
  ASSUME IInv, Writing, NEW s \in handles,
         NEW ps \in Seq(Points), NEW n \in 0 .. Len(ps), CoreTakes(s, ps, n), Room(Len(ps)),
         counts' = [counts EXCEPT ![s] = @ + n],
         UNCHANGED <<lang, kind, handles, stored, reader>>
  PROVE  IInv'
<1>1. s \in Slots /\ handles \subseteq Slots
  BY DEF IInv, TypeOK
<1>2. /\ cores' \in [Slots -> Cores]
      /\ Len(cores'[s].log) = Len(cores[s].log) + n
      /\ \A t \in Slots : t # s => cores'[t] = cores[t]
      /\ result' \in {"ok", "overflow", "error"}
  BY <1>1, CoreTakesType DEF IInv
<1>3. /\ \A t \in Slots : Len(cores[t].log) \in Nat
      /\ Len(ps) \in Nat /\ counts[s] = Len(cores[s].log)
  BY LenProperties DEF IInv, TypeOK, Cores, WriterInv
<1>4. Len(cores[s].log) + n \in 0 .. MaxPoints
  <2>1. Len(cores[1].log) + Len(cores[2].log) + Len(ps) <= MaxPoints
    BY DEF Room
  <2>2. Len(cores[s].log) + Len(ps) <= MaxPoints
    <3>1. /\ Len(cores[1].log) \in Nat /\ Len(cores[2].log) \in Nat
          /\ Len(ps) \in Nat /\ MaxPoints \in Nat
      BY <1>3, EnvelopeAssumption DEF Slots
    <3>2. /\ Len(cores[1].log) + Len(ps) <= MaxPoints
          /\ Len(cores[2].log) + Len(ps) <= MaxPoints
      <4> DEFINE a == Len(cores[1].log)
                 b == Len(cores[2].log)
                 k == Len(ps)
      <4>1. a \in Nat /\ b \in Nat /\ k \in Nat /\ a + b + k <= MaxPoints
        BY <2>1, <3>1
      <4> HIDE DEF a, b, k
      <4>2. a + k <= MaxPoints /\ b + k <= MaxPoints
        BY <3>1, <4>1
      <4> QED
        BY <4>2 DEF a, b, k
    <3>3. s = 1 \/ s = 2
      BY <1>1 DEF Slots
    <3> QED
      BY <3>2, <3>3, Zenon
  <2>3. Len(cores[s].log) \in Nat
    BY <1>1, <1>3
  <2> QED
    BY <1>3, <2>2, <2>3, EnvelopeAssumption
<1>5. /\ counts' \in [Slots -> 0 .. MaxPoints] /\ counts'[s] = Len(cores'[s].log)
      /\ \A t \in Slots : t # s => counts'[t] = counts[t]
  BY <1>1, <1>2, <1>3, <1>4 DEF IInv, TypeOK
<1>6. TypeOK'
  BY <1>2, <1>5 DEF IInv, TypeOK, reader
<1>7. WriterInv'
  <2>1. \A t \in Slots : Len(cores'[t].log) <= MaxPoints
    BY <1>2, <1>4 DEF IInv, WriterInv
  <2>2. \A t \in handles : counts'[t] = Len(cores'[t].log)
    BY <1>1, <1>2, <1>5 DEF IInv, WriterInv
  <2>3. \A t \in Slots \ handles : cores'[t].log = << >>
    BY <1>1, <1>2 DEF IInv, WriterInv
  <2> QED
    BY <2>1, <2>2, <2>3 DEF WriterInv
<1> QED
  BY <1>6, <1>7, ReadingKept DEF IInv

(* An append through an object without a handle changes nothing. *)
LEMMA AppendMovedInv ==
  ASSUME IInv, NEW s \in Slots, AppendMoved(s)
  PROVE  IInv'
<1>1. TypeOK' /\ WriterInv'
  BY DEF IInv, TypeOK, WriterInv, Writing, AppendMoved, stored, reader
<1> QED
  BY <1>1, ReadingKept DEF IInv, AppendMoved

(* append counts the point unless it overflowed. *)
LEMMA AppendPointInv ==
  ASSUME IInv, NEW s \in Slots, NEW p \in Points, Room(1), AppendPoint(s, p)
  PROVE  IInv'
<1>1. PICK n \in {0, 1} : CoreTakes(s, <<p>>, n) /\ counts' = [counts EXCEPT ![s] = @ + n]
  BY DEF AppendPoint
<1>2. <<p>> \in Seq(Points) /\ Len(<<p>>) = 1
  OBVIOUS
<1>3. n \in 0 .. Len(<<p>>) /\ Room(Len(<<p>>))
  BY <1>2
<1> QED
  BY <1>1, <1>2, <1>3, TakenInv DEF AppendPoint

(* append_batch counts the points that were written. *)
LEMMA AppendBatchInv ==
  ASSUME IInv, NEW s \in Slots, NEW m \in Nat, NEW ps \in [1 .. m -> Points],
         Room(m), AppendBatch(s, ps)
  PROVE  IInv'
<1>1. ps \in Seq(Points) /\ Len(ps) = m
  OBVIOUS
<1>2. PICK n \in 0 .. Len(ps) : CoreTakes(s, ps, n) /\ counts' = [counts EXCEPT ![s] = @ + n]
  BY DEF AppendBatch
<1> QED
  BY <1>1, <1>2, TakenInv DEF AppendBatch

(* The object that a stream is moved to has it and its count, and nothing of *)
(* the stream it had.                                                        *)
LEMMA MoveInv ==
  ASSUME IInv, NEW s \in Slots, NEW t \in Slots, Move(s, t)
  PROVE  IInv'
<1>1. /\ cores \in [Slots -> Cores] /\ counts \in [Slots -> 0 .. MaxPoints]
      /\ Writing /\ s # t /\ UNCHANGED <<lang, kind, result, stored, reader>>
      /\ handles' = {u \in Slots : u = t /\ s \in handles}
      /\ cores' = [cores EXCEPT ![t] = cores[s], ![s] = Empty]
      /\ counts' = [counts EXCEPT ![t] = counts[s]]
  BY DEF IInv, TypeOK, Move
<1>2. Empty \in Cores /\ Empty.log = << >> /\ Len(Empty.log) = 0
  <2>1. << >> \in Seq(Points) /\ FALSE \in BOOLEAN
    OBVIOUS
  <2> QED
    BY <2>1 DEF Empty, Cores
<1>3. cores' \in [Slots -> Cores] /\ counts' \in [Slots -> 0 .. MaxPoints]
      /\ cores'[t] = cores[s] /\ cores'[s] = Empty /\ counts'[t] = counts[s]
  BY <1>1, <1>2
<1>4. \A u \in Slots : u = s \/ u = t
  BY <1>1 DEF Slots
<1>5. TypeOK'
  BY <1>1, <1>3 DEF IInv, TypeOK, reader
<1>6. WriterInv'
  <2>1. \A u \in Slots : Len(cores'[u].log) <= MaxPoints
    BY <1>2, <1>3, <1>4, EnvelopeAssumption DEF IInv, WriterInv
  <2>2. \A u \in handles' : counts'[u] = Len(cores'[u].log)
    BY <1>1, <1>3 DEF IInv, WriterInv
  <2>3. \A u \in Slots \ handles' : cores'[u].log = << >>
    BY <1>1, <1>2, <1>3, <1>4 DEF IInv, WriterInv
  <2> QED
    BY <2>1, <2>2, <2>3 DEF WriterInv
<1> QED
  BY <1>1, <1>5, <1>6, ReadingKept DEF IInv

(* An envelope around a stream has its points, and its count is their number *)
(* if there was a stream.                                                    *)
LEMMA PackInv ==
  ASSUME IInv, Writing, NEW core \in Cores, NEW n \in 0 .. MaxPoints, NEW open \in BOOLEAN,
         open => n = Len(core.log), ~ open => core.log = << >>, Pack(core, n, open),
         UNCHANGED <<kind, reader>>
  PROVE  /\ StoredInv' /\ ReaderInv' /\ AllOrThrow' /\ Interoperable'
         /\ ~ Writing'
<1>1. status = "none" /\ dec = NoDecoder /\ kind \in Kinds
  BY DEF IInv, TypeOK, ReaderInv, Writing
<1>2. PICK s \in WholeStreams(core) :
        env' = [made |-> TRUE, header |-> TRUE, tag |-> TagOf(kind), count |-> n,
                opens |-> open, points |-> s.points, spare |-> s.spare]
  BY DEF Pack
<1>3. whole' = core /\ fresh' = open
  BY DEF Pack
<1>4. /\ s.points = core.log /\ core.log \in Seq(Points)
      /\ s.spare \in 0 .. MostPadding /\ (core.log = << >> => s.spare = 0)
  BY <1>2 DEF WholeStreams, Cores, MostPadding
<1>5. Agrees(core.log, core.log)
  BY <1>4, LenProperties DEF Agrees
<1>6. TagOf(kind) \in {0, 1}
  BY DEF TagOf
<1>7. env' \in Envelopes
  BY <1>2, <1>4, <1>6 DEF Envelopes
<1>8. /\ env'.made /\ env'.tag = TagOf(kind) /\ env'.count = n
      /\ env'.points = core.log /\ env'.spare = s.spare
  BY <1>2, <1>4
<1>9. StoredInv'
  <2>1. env'.spare > 0 => fresh'
    BY <1>3, <1>4, <1>8
  <2>2. TagOf(kind)' = TagOf(kind)
    BY DEF TagOf
  <2> QED
    BY <1>3, <1>4, <1>5, <1>7, <1>8, <2>1, <2>2 DEF StoredInv
<1>10. ReaderInv' /\ AllOrThrow' /\ Interoperable'
  BY <1>1 DEF IInv, ReaderInv, AllOrThrow, Interoperable, reader
<1> QED
  BY <1>8, <1>9, <1>10 DEF Writing

LEMMA SerializeInv ==
  ASSUME IInv, NEW s \in Slots, Serialize(s)
  PROVE  IInv'
<1>1. /\ cores[s] \in Cores /\ counts[s] \in 0 .. MaxPoints /\ (s \in handles) \in BOOLEAN
      /\ s \in handles => counts[s] = Len(cores[s].log)
      /\ s \notin handles => cores[s].log = << >>
      /\ Writing /\ Pack(cores[s], counts[s], s \in handles)
  BY DEF IInv, TypeOK, WriterInv, Serialize
<1>2. /\ StoredInv' /\ ReaderInv' /\ AllOrThrow' /\ Interoperable'
      /\ ~ Writing'
  BY <1>1, PackInv DEF Serialize
<1>3. TypeOK' /\ WriterInv'
  BY <1>2 DEF IInv, TypeOK, WriterInv, Serialize, reader
<1> QED
  BY <1>2, <1>3 DEF IInv

(* compress_arrays counts the points of its only batch. *)
LEMMA CompressArraysInv ==
  ASSUME IInv, NEW m \in 0 .. MaxPoints, NEW ps \in [1 .. m -> Points], CompressArrays(ps)
  PROVE  IInv'
<1>1. m \in Nat
  BY EnvelopeAssumption
<1>2. ps \in Seq(Points) /\ Len(ps) = m
  BY <1>1
<1> DEFINE core == Taken(Empty, ps, FALSE)
<1>3. core \in Cores /\ core.log = ps
  <2>1. << >> \o ps = ps
    BY <1>2
  <2> QED
    BY <1>2, <2>1 DEF Taken, Empty, Cores
<1>4. Writing /\ Pack(core, m, TRUE) /\ UNCHANGED <<writer, reader>>
  BY <1>2 DEF CompressArrays
<1> HIDE DEF core
<1>5. /\ StoredInv' /\ ReaderInv' /\ AllOrThrow' /\ Interoperable'
      /\ ~ Writing'
  BY <1>2, <1>3, <1>4, PackInv DEF writer
<1>6. TypeOK' /\ WriterInv'
  BY <1>4, <1>5 DEF IInv, TypeOK, WriterInv, writer, reader
<1> QED
  BY <1>5, <1>6 DEF IInv

(* An envelope with other points and other padding is an envelope. *)
LEMMA CutEnvelope ==
  ASSUME NEW e \in Envelopes, NEW ps \in Seq(Points), NEW o \in BOOLEAN,
         NEW n \in 0 .. MostPadding
  PROVE  /\ [e EXCEPT !.points = ps, !.spare = n] \in Envelopes
         /\ [e EXCEPT !.opens = o, !.points = ps, !.spare = n] \in Envelopes
BY DEF Envelopes

(* What is lost on the way leaves a beginning, and no padding behind it. *)
LEMMA TruncateInv ==
  ASSUME IInv, Truncate
  PROVE  IInv'
<1>1. env \in Envelopes /\ env.points \in Seq(Points)
  BY DEF IInv, StoredInv, Truncate, Envelopes
<1>2. env.made /\ UNCHANGED <<writer, whole, fresh, reader>>
  BY DEF Truncate
<1>3. Agrees(env.points, env.points)
  BY <1>1, LenProperties DEF Agrees
<1>4. status = "none"
  BY DEF IInv, ReaderInv, Truncate, NoDecoder, Langs
<1> DEFINE Cut(e) == /\ e \in Envelopes /\ e.made /\ e.count = env.count /\ e.tag = env.tag
                     /\ Agrees(e.points, env.points)
                     /\ e.spare > 0 => e.points = env.points /\ e.spare = env.spare
<1>5. Cut(env')
  <2>1. CASE env' = [env EXCEPT !.header = FALSE]
    <3>1. env' \in Envelopes
      BY <1>1, <2>1 DEF Envelopes
    <3>2. /\ env'.made = env.made /\ env'.count = env.count /\ env'.tag = env.tag
          /\ env'.points = env.points /\ env'.spare = env.spare
      BY <1>1, <2>1 DEF Envelopes
    <3> QED
      BY <1>2, <1>3, <3>1, <3>2
  <2>2. CASE env' = [env EXCEPT !.opens = FALSE, !.points = << >>, !.spare = 0]
    <3>1. << >> \in Seq(Points) /\ Agrees(<< >>, env.points)
      BY <1>1, LenProperties DEF Agrees
    <3>2. env' \in Envelopes
      <4>1. 0 \in 0 .. MostPadding /\ FALSE \in BOOLEAN
        BY DEF MostPadding
      <4> QED
        BY <1>1, <2>2, <3>1, <4>1, CutEnvelope, Zenon
    <3>3. /\ env'.made = env.made /\ env'.count = env.count /\ env'.tag = env.tag
          /\ env'.points = << >> /\ env'.spare = 0
      BY <1>1, <2>2 DEF Envelopes
    <3> QED
      BY <1>2, <3>1, <3>2, <3>3
  <2>3. ASSUME NEW s \in CutStreams([log |-> env.points, full |-> whole.full]),
               env' = [env EXCEPT !.points = s.points, !.spare = s.spare]
        PROVE  Cut(env')
    <3>1. PICK n \in 0 .. Len(env.points) : s.points = SubSeq(env.points, 1, n)
      BY DEF CutStreams
    <3>2. s.spare = 0
      BY DEF CutStreams
    <3>3. s.points \in Seq(Points) /\ Agrees(s.points, env.points)
      BY <1>1, <3>1, SubSeqType, LenProperties DEF Agrees
    <3>4. env' \in Envelopes
      <4>1. s.spare \in 0 .. MostPadding
        BY <3>2 DEF MostPadding
      <4> QED
        BY <1>1, <2>3, <3>3, <4>1, CutEnvelope, Zenon
    <3>5. /\ env'.made = env.made /\ env'.count = env.count /\ env'.tag = env.tag
          /\ env'.points = s.points /\ env'.spare = 0
      BY <1>1, <2>3, <3>2 DEF Envelopes
    <3> QED
      BY <1>2, <3>3, <3>4, <3>5
  <2> QED
    BY <2>1, <2>2, <2>3 DEF Truncate
<1>6. StoredInv'
  <2>1. Agrees(env'.points, whole.log)
    <3>1. /\ Agrees(env.points, whole.log) /\ whole.log \in Seq(Points)
          /\ env'.points \in Seq(Points)
      BY <1>2, <1>5 DEF IInv, StoredInv, Envelopes, Cores
    <3> QED
      BY <1>1, <1>5, <3>1, LenProperties DEF Agrees
  <2>2. TagOf(kind)' = TagOf(kind)
    BY <1>2 DEF TagOf, writer
  <2> QED
    BY <1>1, <1>2, <1>5, <2>1, <2>2 DEF IInv, StoredInv
<1>7. TypeOK' /\ WriterInv'
  BY <1>2, <1>5 DEF IInv, TypeOK, WriterInv, Writing, writer, reader
<1>8. ReaderInv' /\ AllOrThrow' /\ Interoperable'
  BY <1>2, <1>4 DEF IInv, ReaderInv, AllOrThrow, Interoperable, reader
<1> QED
  BY <1>6, <1>7, <1>8 DEF IInv

(* A decompressor starts with the count of the envelope and for the type of  *)
(* its values, or is refused.                                                *)
LEMMA ConstructInv ==
  ASSUME IInv, NEW l \in Langs, NEW k \in Kinds, Construct(l, k)
  PROVE  IInv'
<1>1. /\ env \in Envelopes /\ env.made /\ env.count \in 0 .. MaxPoints
      /\ env.tag = TagOf(kind) /\ kind \in Kinds
      /\ status = "none" /\ pos = 0 /\ out = << >> /\ ~ raised
  BY DEF IInv, TypeOK, StoredInv, ReaderInv, Construct, Envelopes, NoDecoder, Langs
<1>2. UNCHANGED <<writer, stored, pos, left, held, raised, out>>
  BY DEF Construct
<1>3. WriterInv' /\ StoredInv'
  BY <1>2 DEF IInv, WriterInv, Writing, StoredInv, TagOf, writer, stored
<1> DEFINE good == env.header /\ env.tag = TagOf(k)
<1>4. /\ dec' = [lang |-> l, kind |-> k, count |-> IF good THEN env.count ELSE 0]
      /\ status' = IF good THEN "idle" ELSE "rejected"
  BY DEF Construct
<1>5. TypeOK'
  BY <1>2, <1>4 DEF IInv, TypeOK, writer
<1>6. good => k = kind
  BY <1>1 DEF TagOf, Kinds
<1>7. dec' \in [lang : Langs, kind : Kinds, count : 0 .. MaxPoints]
  <2>1. (IF good THEN env.count ELSE 0) \in 0 .. MaxPoints
    BY <1>1, EnvelopeAssumption
  <2> HIDE DEF good
  <2> QED
    BY <1>4, <2>1
<1>8. CASE good
  <2>1. dec'.kind = kind' /\ dec'.count = env'.count /\ status' = "idle"
    BY <1>2, <1>4, <1>6, <1>8 DEF writer, stored
  <2>2. Agrees(out, Available)' /\ Len(out') = 0
    <3>1. Len(Available') \in Nat
      <4>1. Available' = env.points \o [i \in 1 .. env.spare |-> Phantom]
        BY <1>2, <2>1 DEF Available, stored
      <4>2. env.points \in Seq(Points \cup {Phantom})
        <5>1. env.points \in Seq(Points)
          BY <1>1 DEF Envelopes
        <5> QED
          BY <5>1, SeqMonotonic
      <4>3. [i \in 1 .. env.spare |-> Phantom] \in Seq(Points \cup {Phantom})
        BY <1>1 DEF Envelopes, MostPadding
      <4> QED
        BY <4>1, <4>2, <4>3, ConcatProperties, LenProperties, Zenon
    <3> QED
      BY <1>1, <1>2, <3>1 DEF Agrees
  <2>3. ReaderInv'
    BY <1>1, <1>2, <1>7, <2>1, <2>2 DEF ReaderInv, stored
  <2> QED
    BY <1>1, <1>2, <1>3, <1>5, <2>1, <2>3 DEF IInv, AllOrThrow, Interoperable
<1>9. CASE ~ good
  <2>1. status' = "rejected" /\ dec'.kind = k
    BY <1>4, <1>9
  <2>2. Untouched' => dec'.kind # kind'
    <3>1. k = kind => env.tag = TagOf(k)
      BY <1>1
    <3>2. Untouched' => env.header
      BY <1>2 DEF Untouched, stored
    <3>3. kind' = kind
      BY <1>2 DEF writer
    <3> QED
      BY <1>9, <2>1, <3>1, <3>2, <3>3
  <2>3. Interoperable'
    BY <1>1, <1>2, <2>1, <2>2 DEF Interoperable
  <2>4. ReaderInv' /\ AllOrThrow'
    BY <1>1, <1>2, <1>7, <2>1 DEF ReaderInv, AllOrThrow, stored
  <2> QED
    BY <1>3, <1>5, <2>3, <2>4 DEF IInv
<1> QED
  BY <1>8, <1>9

-----------------------------------------------------------------------------
(* What a reading may rely on. *)
LEMMA ReadingFacts ==
  ASSUME IInv, status \in {"idle", "iterating"}
  PROVE  /\ env.made /\ env \in Envelopes
         /\ dec.count = env.count /\ dec.count \in 0 .. MaxPoints
         /\ dec \in [lang : Langs, kind : Kinds, count : 0 .. MaxPoints]
         /\ dec.kind = kind
         /\ Available \in Seq(Points \cup {Phantom}) /\ Len(Available) \in Nat
         /\ out \in Seq(Points \cup {Phantom}) /\ Len(out) \in Nat
         /\ Agrees(out, Available) /\ Len(out) <= dec.count
         /\ pos = Len(out) /\ pos \in 0 .. MaxPoints
         /\ Untouched => dec.count <= Len(Available) /\ ~ raised
<1>1. /\ env.made /\ env \in Envelopes
      /\ dec.count = env.count /\ dec.kind = kind
      /\ dec \in [lang : Langs, kind : Kinds, count : 0 .. MaxPoints]
      /\ Agrees(out, Available) /\ Len(out) <= dec.count
  BY DEF IInv, StoredInv, ReaderInv
<1>2. out \in Seq(Points \cup {Phantom}) /\ Len(out) \in Nat
  BY LenProperties DEF IInv, TypeOK
<1>3. Available \in Seq(Points \cup {Phantom}) /\ Len(Available) \in Nat
      /\ Len(Available) = Len(env.points) + env.spare
  BY <1>1, AvailableType, LenProperties
<1>4. env.spare \in 0 .. 3 /\ Len(env.points) \in Nat
  BY <1>1, LenProperties DEF Envelopes, MostPadding
<1>5. dec # NoDecoder
  BY <1>1 DEF NoDecoder, Langs
<1>6. Untouched => dec.count <= Len(Available) /\ ~ raised
  BY <1>1, <1>3, <1>4, <1>5 DEF Untouched, IInv, StoredInv, Interoperable
<1>7. pos = Len(out) /\ pos \in 0 .. MaxPoints
  <2>1. pos = Len(out)
    BY DEF IInv, ReaderInv
  <2> QED
    BY <1>1, <1>2, <2>1, EnvelopeAssumption
<1> QED
  BY <1>1, <1>2, <1>3, <1>6, <1>7

(* A series that agrees with an intact envelope and has its length is all of *)
(* it.                                                                       *)
LEMMA WholeSeries ==
  ASSUME IInv, status \in {"idle", "iterating"}, Untouched,
         NEW s \in Seq(Points \cup {Phantom}), Agrees(s, Available), Len(s) = dec.count
  PROVE  s = whole.log
<1>1. env.made /\ dec.count = env.count /\ dec.kind = kind
  BY ReadingFacts
<1>2. Agrees(s, whole.log)
  BY <1>1, SeriesDelivered DEF IInv
<1>3. whole.log \in Seq(Points \cup {Phantom}) /\ Len(whole.log) = env.count
  <2>1. whole.log \in Seq(Points) /\ Len(whole.log) = env.count
    BY <1>1 DEF IInv, StoredInv, Untouched, Cores
  <2> QED
    BY <2>1, SeqMonotonic
<1> QED
  BY <1>1, <1>2, <1>3, SeqEqual DEF Agrees

(* A step of a reading preserves the invariant when it keeps to what the C   *)
(* decompressor has and to the count, and ends well only when it may.        *)
LEMMA ReadingInv ==
  ASSUME IInv, status \in {"idle", "iterating"}, UNCHANGED <<writer, stored, dec>>,
         out' \in Seq(Points \cup {Phantom}), pos' \in 0 .. MaxPoints, left' \in 0 .. MaxPoints,
         held' \in Points \cup {Phantom}, raised' \in BOOLEAN,
         Agrees(out', Available), Len(out') <= dec.count,
         status' \in {"iterating", "done", "threw", "index_error", "panicked"},
         status' = "iterating" =>
           /\ pos' = Len(out')
           /\ dec.lang = "rust" => left' + pos' = dec.count
           /\ dec.lang # "rust" => /\ left' > 0 /\ left' + pos' <= dec.count + 1
                                   /\ ~ raised' => left' + pos' = dec.count + 1
                                   /\ pos' > 0 /\ held' = out'[pos'],
         status' = "done" /\ ((dec.lang # "rust" /\ ~ raised') \/ Untouched) => Len(out') = dec.count,
         Untouched => status' \notin {"threw", "panicked"} /\ ~ raised',
         status' = "index_error" => dec.lang = "py" /\ dec.count = 0
  PROVE  IInv'
<1>1. /\ env' = env /\ whole' = whole /\ fresh' = fresh /\ dec' = dec /\ kind' = kind
      /\ Available' = Available
  BY DEF stored, writer, Available
<1>2. TypeOK'
  BY EnvelopeAssumption DEF IInv, TypeOK, writer, MostPadding
<1>3. WriterInv' /\ StoredInv'
  BY <1>1, WritingKept DEF IInv, StoredInv, TagOf
<1>4. ReaderInv'
  BY <1>1, ReadingFacts DEF ReaderInv
<1>5. AllOrThrow'
  BY <1>1 DEF AllOrThrow
<1>6. Interoperable'
  <2>1. Untouched /\ status' = "done" => out' = whole.log
    BY WholeSeries
  <2>2. Untouched /\ status' = "index_error" => dec.lang = "py" /\ whole.log = << >>
    <3>1. Untouched /\ dec.count = 0 => Len(whole.log) = 0 /\ whole.log \in Seq(Points)
      BY ReadingFacts DEF Untouched, IInv, StoredInv, Cores
    <3> QED
      BY <3>1, EmptySeq
  <2>3. dec.kind = kind
    BY ReadingFacts
  <2>4. Untouched' = Untouched
    BY <1>1 DEF Untouched
  <2> QED
    BY <1>1, <2>1, <2>2, <2>3, <2>4 DEF Interoperable
<1> QED
  BY <1>2, <1>3, <1>4, <1>5, <1>6 DEF IInv

(* A batch call delivers a beginning of what there is. *)
LEMMA DeliveredType ==
  ASSUME Available \in Seq(Points \cup {Phantom}), NEW n \in Nat
  PROVE  /\ Delivered(n) \in Seq(Points \cup {Phantom})
         /\ Len(Delivered(n)) = IF n <= Len(Available) THEN n ELSE Len(Available)
         /\ Agrees(Delivered(n), Available)
<1>1. Len(Available) \in Nat
  BY LenProperties
<1> DEFINE m == IF n <= Len(Available) THEN n ELSE Len(Available)
<1>2. m \in 0 .. Len(Available)
  BY <1>1
<1>3. Delivered(n) = SubSeq(Available, 1, m)
  BY DEF Delivered
<1>4. /\ SubSeq(Available, 1, m) \in Seq(Points \cup {Phantom})
      /\ Len(SubSeq(Available, 1, m)) = m
      /\ \A i \in 1 .. m : SubSeq(Available, 1, m)[i] = Available[i]
  BY <1>2, SubSeqType, Zenon
<1> HIDE DEF m
<1>5. Agrees(Delivered(n), Available)
  BY <1>1, <1>2, <1>3, <1>4 DEF Agrees
<1> QED
  BY <1>3, <1>4, <1>5 DEF m

(* A single call delivers the next point. *)
LEMMA FetchedType ==
  ASSUME IInv, status \in {"idle", "iterating"}, ~ AtEnd, Deliver
  PROVE  /\ out' \in Seq(Points \cup {Phantom})
         /\ pos' = pos + 1 /\ Len(out') = pos'
         /\ Available[pos + 1] \in Points \cup {Phantom} /\ out'[pos'] = Available[pos + 1]
         /\ Agrees(out', Available)
<1>1. /\ Available \in Seq(Points \cup {Phantom}) /\ Len(Available) \in Nat
      /\ out \in Seq(Points \cup {Phantom}) /\ pos = Len(out) /\ pos \in Nat
      /\ Agrees(out, Available)
  BY ReadingFacts
<1>2. pos + 1 \in 1 .. Len(Available)
  BY <1>1 DEF AtEnd
<1>3. Available[pos + 1] \in Points \cup {Phantom}
  BY <1>1, <1>2, ElementOfSeq
<1>4. pos' = pos + 1 /\ out' = Append(out, Available[pos + 1])
  BY DEF Deliver
<1>5. /\ out' \in Seq(Points \cup {Phantom})
      /\ Len(out') = Len(out) + 1
      /\ \A i \in 1 .. Len(out) : out'[i] = out[i]
      /\ out'[Len(out) + 1] = Available[pos + 1]
  BY <1>1, <1>3, <1>4, AppendProperties
<1> QED
  BY <1>1, <1>2, <1>3, <1>4, <1>5 DEF Agrees

(* The caller's reading keeps what it has while nothing is fetched. *)
LEMMA HeldType == IInv => held \in Points \cup {Phantom} /\ raised \in BOOLEAN /\ left \in 0 .. MaxPoints
BY DEF IInv, TypeOK

(* to_vector and decode_into end well only with all points. *)
LEMMA DecodeAllInv == IInv /\ DecodeAll /\ dec.lang # "rust" => IInv'
<1> SUFFICES ASSUME IInv, DecodeAll, dec.lang # "rust" PROVE IInv'
  OBVIOUS
<1>1. status = "idle" /\ UNCHANGED <<writer, stored, dec, pos, left, held, raised>>
  BY DEF DecodeAll
<1>2. pos \in 0 .. MaxPoints /\ dec.count \in Nat
  BY <1>1, ReadingFacts
<1>3. CASE dec.count <= Len(Available) /\ (dec.count > 0 => env.opens)
  <2>1. out' = Delivered(dec.count) /\ status' = "done"
    BY <1>3 DEF DecodeAll
  <2>2. /\ out' \in Seq(Points \cup {Phantom}) /\ Len(out') = dec.count
        /\ Agrees(out', Available)
    BY <1>1, <1>2, <1>3, <2>1, ReadingFacts, DeliveredType
  <2>3. Untouched => ~ raised
    BY <1>1, ReadingFacts
  <2> QED
    BY <1>1, <1>2, <2>1, <2>2, <2>3, HeldType, ReadingInv
<1>4. CASE ~ (dec.count <= Len(Available) /\ (dec.count > 0 => env.opens))
  <2>1. out' = out /\ status' = "threw" /\ ~ Untouched
    BY <1>1, <1>4, ReadingFacts DEF DecodeAll, Untouched
  <2> QED
    BY <1>1, <1>2, <2>1, HeldType, ReadingFacts, ReadingInv
<1> QED
  BY <1>3, <1>4

(* decompress_to_arrays throws when there is nothing to decode. *)
LEMMA PyDecodeArraysInv == IInv /\ PyDecodeArrays => IInv'
<1> SUFFICES ASSUME IInv, PyDecodeArrays PROVE IInv'
  OBVIOUS
<1>1. CASE DecodeAll
  BY <1>1, DecodeAllInv DEF PyDecodeArrays
<1>2. CASE /\ status = "idle" /\ dec.count = 0 /\ status' = "index_error"
           /\ UNCHANGED <<writer, stored, dec, pos, left, held, raised, out>>
  <2>1. dec.lang = "py"
    BY DEF PyDecodeArrays
  <2>2. Len(out) <= dec.count /\ pos \in 0 .. MaxPoints /\ (Untouched => ~ raised)
    BY <1>2, ReadingFacts
  <2> QED
    BY <1>2, <2>1, <2>2, HeldType, ReadingFacts, ReadingInv
<1> QED
  BY <1>1, <1>2 DEF PyDecodeArrays

(* to_columns is not longer than the count. *)
LEMMA RustDecodeAllInv == IInv /\ RustDecodeAll => IInv'
<1> SUFFICES ASSUME IInv, RustDecodeAll PROVE IInv'
  OBVIOUS
<1>1. /\ status = "idle" /\ dec.lang = "rust"
      /\ UNCHANGED <<writer, stored, dec, pos, left, held, raised>>
  BY DEF RustDecodeAll
<1>2. pos \in 0 .. MaxPoints /\ dec.count \in Nat
  BY <1>1, ReadingFacts
<1>3. CASE dec.count > 0 /\ ~ env.opens
  <2>1. out' = out /\ status' = "panicked" /\ ~ Untouched
    BY <1>3 DEF RustDecodeAll, Untouched
  <2> QED
    BY <1>1, <1>2, <2>1, HeldType, ReadingFacts, ReadingInv
<1>4. CASE ~ (dec.count > 0 /\ ~ env.opens)
  <2>1. out' = Delivered(dec.count) /\ status' = "done"
    BY <1>4 DEF RustDecodeAll
  <2>2. /\ out' \in Seq(Points \cup {Phantom}) /\ Len(out') <= dec.count
        /\ Agrees(out', Available)
        /\ Untouched => Len(out') = dec.count /\ ~ raised
    <3>1. /\ Available \in Seq(Points \cup {Phantom}) /\ Len(Available) \in Nat
          /\ Untouched => dec.count <= Len(Available) /\ ~ raised
      BY <1>1, ReadingFacts
    <3>2. /\ out' \in Seq(Points \cup {Phantom}) /\ Agrees(out', Available)
          /\ Len(out') = IF dec.count <= Len(Available) THEN dec.count ELSE Len(Available)
      BY <1>2, <2>1, <3>1, DeliveredType
    <3> QED
      BY <1>2, <3>1, <3>2
  <2> QED
    BY <1>1, <1>2, <2>1, <2>2, HeldType, ReadingInv
<1> QED
  BY <1>3, <1>4

(* The C++ iterator: begin and ++ fetch with left' points still to come, or  *)
(* fewer than there are when an exception came before.                       *)
LEMMA CppFetchInv ==
  ASSUME IInv, status \in {"idle", "iterating"}, dec.lang = "cpp", UNCHANGED <<writer, stored, dec>>,
         left' \in Nat, left' + pos <= dec.count, ~ raised => left' + pos = dec.count, CppFetch
  PROVE  IInv'
<1>1. /\ pos = Len(out) /\ pos \in Nat /\ dec.count \in 0 .. MaxPoints
      /\ out \in Seq(Points \cup {Phantom}) /\ Agrees(out, Available)
      /\ Len(Available) \in Nat
      /\ Untouched => dec.count <= Len(Available) /\ ~ raised
  BY ReadingFacts
<1>2. left' \in 0 .. MaxPoints /\ pos \in 0 .. MaxPoints
  BY <1>1, EnvelopeAssumption
<1>3. held \in Points \cup {Phantom} /\ raised \in BOOLEAN
  BY HeldType
<1>4. CASE left' = 0
  <2>1. status' = "done" /\ UNCHANGED <<pos, held, raised, out>>
    BY <1>4 DEF CppFetch
  <2>2. ~ raised => Len(out') = dec.count
    BY <1>1, <1>4, <2>1
  <2> QED
    BY <1>1, <1>2, <1>3, <2>1, <2>2, ReadingInv
<1>5. CASE left' # 0 /\ (AtEnd \/ ~ env.opens)
  <2>1. /\ status' = IF status = "idle" THEN "threw" ELSE status
        /\ raised' = (status # "idle") /\ UNCHANGED <<pos, held, out>>
    BY <1>5 DEF CppFetch
  <2>2. ~ Untouched
    BY <1>1, <1>5 DEF AtEnd, Untouched
  <2>3. status = "iterating" => pos > 0 /\ held = out[pos]
    BY DEF IInv, ReaderInv
  <2>4. left' > 0 /\ left' + pos <= dec.count + 1 /\ Len(out) <= dec.count
    BY <1>1, <1>2, <1>5
  <2>5. CASE status = "idle"
    BY <1>1, <1>2, <1>3, <2>1, <2>2, <2>4, <2>5, ReadingInv
  <2>6. CASE status = "iterating"
    BY <1>1, <1>2, <1>3, <2>1, <2>2, <2>3, <2>4, <2>6, ReadingInv
  <2> QED
    BY <2>5, <2>6
<1>6. CASE left' # 0 /\ ~ (AtEnd \/ ~ env.opens)
  <2>1. Deliver /\ held' = Available[pos + 1] /\ status' = "iterating" /\ raised' = raised
    BY <1>6 DEF CppFetch
  <2>2. /\ out' \in Seq(Points \cup {Phantom})
        /\ pos' = pos + 1 /\ Len(out') = pos'
        /\ held' \in Points \cup {Phantom} /\ held' = out'[pos']
        /\ Agrees(out', Available)
    BY <1>6, <2>1, FetchedType
  <2>3. /\ pos' \in 0 .. MaxPoints /\ left' > 0 /\ pos' > 0
        /\ left' + pos' <= dec.count + 1 /\ (~ raised => left' + pos' = dec.count + 1)
        /\ Len(out') <= dec.count
    BY <1>1, <1>2, <1>6, <2>2, EnvelopeAssumption
  <2> QED
    BY <1>1, <1>2, <1>3, <2>1, <2>2, <2>3, ReadingInv
<1> QED
  BY <1>4, <1>5, <1>6

LEMMA CppBeginInv == IInv /\ CppBegin => IInv'
<1> SUFFICES ASSUME IInv, CppBegin PROVE IInv'
  OBVIOUS
<1>1. /\ status = "idle" /\ dec.lang = "cpp" /\ pos = 0 /\ left' = dec.count /\ CppFetch
      /\ UNCHANGED <<writer, stored, dec>>
  BY DEF CppBegin, IInv, ReaderInv
<1>2. dec.count \in Nat
  BY <1>1, ReadingFacts
<1> QED
  BY <1>1, <1>2, CppFetchInv

LEMMA CppNextInv == IInv /\ CppNext => IInv'
<1> SUFFICES ASSUME IInv, CppNext PROVE IInv'
  OBVIOUS
<1>1. /\ status = "iterating" /\ dec.lang = "cpp" /\ left' = left - 1 /\ CppFetch
      /\ UNCHANGED <<writer, stored, dec>>
      /\ left > 0 /\ left + pos <= dec.count + 1 /\ left \in Nat /\ pos \in Nat
      /\ ~ raised => left + pos = dec.count + 1
  BY DEF CppNext, IInv, ReaderInv, TypeOK
<1>2. dec.count \in Nat
  BY <1>1, ReadingFacts
<1>3. left' \in Nat /\ left' + pos <= dec.count /\ (~ raised => left' + pos = dec.count)
  BY <1>1, <1>2
<1> QED
  BY <1>1, <1>3, CppFetchInv

(* The Rust iterator has nothing yet when it is made. *)
LEMMA RustIterInv == IInv /\ RustIter => IInv'
<1> SUFFICES ASSUME IInv, RustIter PROVE IInv'
  OBVIOUS
<1>1. /\ status = "idle" /\ dec.lang = "rust" /\ left' = dec.count
      /\ UNCHANGED <<writer, stored, dec, pos, held, raised, out>>
  BY DEF RustIter
<1>2. /\ pos = 0 /\ out = << >> /\ Len(out) = 0 /\ dec.count \in 0 .. MaxPoints
      /\ out \in Seq(Points \cup {Phantom}) /\ Agrees(out, Available)
      /\ Untouched => ~ raised
  BY <1>1, ReadingFacts DEF IInv, ReaderInv
<1>3. left' + pos = dec.count /\ 0 <= dec.count /\ pos \in 0 .. MaxPoints
  BY <1>1, <1>2, EnvelopeAssumption
<1>4. CASE env.opens
  <2>1. status' = "iterating"
    BY <1>4 DEF RustIter
  <2> QED
    BY <1>1, <1>2, <1>3, <2>1, HeldType, ReadingInv
<1>5. CASE ~ env.opens
  <2>1. status' = "panicked" /\ ~ Untouched
    BY <1>5 DEF RustIter, Untouched
  <2> QED
    BY <1>1, <1>2, <1>3, <2>1, HeldType, ReadingInv
<1> QED
  BY <1>4, <1>5

(* next delivers a point while some remain, and ends at the first error. *)
LEMMA RustNextInv == IInv /\ RustNext => IInv'
<1> SUFFICES ASSUME IInv, RustNext PROVE IInv'
  OBVIOUS
<1>1. /\ status = "iterating" /\ dec.lang = "rust"
      /\ UNCHANGED <<writer, stored, dec, held, raised>>
      /\ left + pos = dec.count /\ left \in Nat
  BY DEF RustNext, IInv, ReaderInv, TypeOK
<1>2. /\ pos = Len(out) /\ pos \in Nat /\ dec.count \in 0 .. MaxPoints
      /\ out \in Seq(Points \cup {Phantom}) /\ Agrees(out, Available)
      /\ Len(Available) \in Nat
      /\ Untouched => dec.count <= Len(Available) /\ ~ raised
  BY <1>1, ReadingFacts
<1>3. pos \in 0 .. MaxPoints /\ 0 \in 0 .. MaxPoints /\ Len(out) <= dec.count
  BY <1>1, <1>2, EnvelopeAssumption
<1>4. CASE left = 0 \/ AtEnd
  <2>1. left' = 0 /\ status' = "done" /\ pos' = pos /\ out' = out
    BY <1>4 DEF RustNext
  <2>2. Untouched => Len(out) = dec.count
    BY <1>1, <1>2, <1>3, <1>4 DEF AtEnd
  <2> QED
    BY <1>1, <1>2, <1>3, <2>1, <2>2, HeldType, ReadingInv
<1>5. CASE ~ (left = 0 \/ AtEnd)
  <2>1. status' = "iterating" /\ left' = left - 1 /\ Deliver
    BY <1>1, <1>5 DEF RustNext
  <2>2. /\ out' \in Seq(Points \cup {Phantom})
        /\ pos' = pos + 1 /\ Len(out') = pos'
        /\ Agrees(out', Available)
    BY <1>1, <1>5, <2>1, FetchedType
  <2>3. /\ pos' \in 0 .. MaxPoints /\ left' \in 0 .. MaxPoints
        /\ left' + pos' = dec.count /\ Len(out') <= dec.count
    BY <1>1, <1>2, <1>5, <2>1, <2>2, EnvelopeAssumption
  <2> QED
    BY <1>1, <1>2, <2>1, <2>2, <2>3, HeldType, ReadingInv
<1> QED
  BY <1>4, <1>5

-----------------------------------------------------------------------------
(* The invariant holds in every reachable state. *)
LEMMA Invariant == Spec => []IInv
<1>1. IInv /\ [Next]_vars => IInv'
  <2> SUFFICES ASSUME IInv, [Next]_vars PROVE IInv'
    OBVIOUS
  <2>1. ASSUME NEW s \in Slots, AppendMoved(s) PROVE IInv'
    BY <2>1, AppendMovedInv
  <2>2. ASSUME NEW s \in Slots, NEW p \in Points, Room(1), AppendPoint(s, p)
        PROVE  IInv'
    BY <2>2, AppendPointInv
  <2>3. ASSUME NEW s \in Slots, NEW n \in 0 .. MaxBatch, NEW ps \in [1 .. n -> Points],
               Room(n), AppendBatch(s, ps)
        PROVE  IInv'
    BY <2>3, AppendBatchInv, EnvelopeAssumption
  <2>4. ASSUME NEW s \in Slots, NEW t \in Slots, Move(s, t) PROVE IInv'
    BY <2>4, MoveInv
  <2>5. ASSUME NEW s \in Slots, Serialize(s) PROVE IInv'
    BY <2>5, SerializeInv
  <2>6. ASSUME NEW n \in 0 .. MaxPoints, NEW ps \in [1 .. n -> Points], CompressArrays(ps)
        PROVE  IInv'
    BY <2>6, CompressArraysInv
  <2>7. CASE Truncate
    BY <2>7, TruncateInv
  <2>8. ASSUME NEW l \in Langs, NEW k \in Kinds, Construct(l, k) PROVE IInv'
    BY <2>8, ConstructInv
  <2>9. CASE CppDecodeAll \/ PyDecodeAll
    <3>1. DecodeAll /\ dec.lang # "rust"
      BY <2>9 DEF CppDecodeAll, PyDecodeAll
    <3> QED
      BY <3>1, DecodeAllInv
  <2>10. CASE RustDecodeAll \/ PyDecodeArrays
    BY <2>10, RustDecodeAllInv, PyDecodeArraysInv
  <2>11. CASE CppBegin \/ CppNext
    BY <2>11, CppBeginInv, CppNextInv
  <2>12. CASE RustIter \/ RustNext
    BY <2>12, RustIterInv, RustNextInv
  <2>13. CASE UNCHANGED vars
    <3>1. UNCHANGED <<writer, stored>> /\ UNCHANGED <<kind, stored, reader>>
      BY <2>13 DEF vars, writer
    <3>2. TypeOK'
      BY <3>1 DEF IInv, TypeOK, writer, reader
    <3> QED
      BY <3>1, <3>2, ReadingKept, WritingKept DEF IInv
  <2> QED
    BY <2>1, <2>2, <2>3, <2>4, <2>5, <2>6, <2>7, <2>8, <2>9, <2>10, <2>11, <2>12, <2>13 DEF Next
<1> QED
  BY <1>1, InitInv, PTL DEF Spec

(* The counts, what remains and what was delivered stay within the series. *)
THEOREM TypeCorrect == Spec => []TypeOK
<1>1. IInv => TypeOK
  BY DEF IInv
<1> QED
  BY <1>1, Invariant, PTL

(* The count in an envelope is the number of points in the stream behind it, *)
(* wherever batches and single points met the end of the buffer and between  *)
(* whatever objects the stream was moved.                                    *)
THEOREM CountIsTrue == Spec => []EnvelopeCount
<1>1. IInv => EnvelopeCount
  BY DEF IInv, StoredInv, EnvelopeCount
<1> QED
  BY <1>1, Invariant, PTL

(* No reading of any language delivers padding, or anything but a beginning  *)
(* of the series, whatever was cut off the envelope.                         *)
THEOREM NoPhantoms == Spec => []OnlyTheSeries
<1>1. IInv => OnlyTheSeries
  <2> SUFFICES ASSUME IInv PROVE IsPrefix(out, whole.log)
    BY DEF OnlyTheSeries
  <2>1. out \in Seq(Points \cup {Phantom}) /\ whole.log \in Seq(Points)
    BY DEF IInv, TypeOK, StoredInv, Cores
  <2>2. Agrees(out, whole.log)
    <3>1. CASE status \in {"none", "rejected"}
      BY <2>1, <3>1, LenProperties DEF IInv, ReaderInv, Agrees
    <3>2. CASE status \notin {"none", "rejected"}
      BY <2>1, <3>2, SeriesDelivered DEF IInv, ReaderInv
    <3> QED
      BY <3>1, <3>2
  <2>3. Len(out) \in Nat /\ Len(whole.log) \in Nat
    BY <2>1, LenProperties
  <2>4. Len(out) \in 0 .. Len(whole.log) /\ whole.log \in Seq(Points \cup {Phantom})
    <3>1. whole.log \in Seq(Points \cup {Phantom})
      BY <2>1, SeqMonotonic
    <3> QED
      BY <2>2, <2>3, <3>1 DEF Agrees
  <2> DEFINE cut == SubSeq(whole.log, 1, Len(out))
  <2>5. /\ cut \in Seq(Points \cup {Phantom}) /\ Len(cut) = Len(out)
        /\ \A i \in 1 .. Len(out) : cut[i] = whole.log[i]
    BY <2>4, SubSeqType, Zenon
  <2> HIDE DEF cut
  <2>6. cut = out
    BY <2>1, <2>2, <2>5, SeqEqual DEF Agrees
  <2>7. SubSeq(out, 1, Len(out)) = out
    BY <2>1, SubSeqFull
  <2> QED
    BY <2>2, <2>6, <2>7 DEF cut, IsPrefix, Agrees
<1> QED
  BY <1>1, Invariant, PTL

(* A C++ or Python reading without an exception has all the points that were *)
(* counted.                                                                  *)
THEOREM NoneMissing == Spec => []AllOrThrow
<1>1. IInv => AllOrThrow
  BY DEF IInv
<1> QED
  BY <1>1, Invariant, PTL

(* An envelope that arrives as it was made is refused only for the type of   *)
(* its values, and else read to its end, and whole, except by the            *)
(* decompress_to_arrays of Python when it has no points.                     *)
THEOREM ReadByAll == Spec => []Interoperable
<1>1. IInv => Interoperable
  BY DEF IInv
<1> QED
  BY <1>1, Invariant, PTL

(* A C++ iterator shows the last point delivered, also after an exception. *)
THEOREM IteratorShowsLast == Spec => []HeldPointIsLast
<1>1. IInv => HeldPointIsLast
  <2> SUFFICES ASSUME IInv, status = "iterating", dec.lang = "cpp"
               PROVE  out # << >> /\ held = out[Len(out)]
    BY DEF HeldPointIsLast
  <2>1. pos = Len(out) /\ pos > 0 /\ held = out[pos]
    BY DEF IInv, ReaderInv
  <2> QED
    BY <2>1
<1> QED
  BY <1>1, Invariant, PTL
=============================================================================

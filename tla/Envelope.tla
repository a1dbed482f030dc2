------------------------------ MODULE Envelope ------------------------------
(***************************************************************************)
(* The C++ wrapper include/gorillats/gorillats.hpp, the Python binding     *)
(* upon it and the Rust crate rust/gorillats/src/lib.rs: compressors that  *)
(* count the points the C core accepts and write the count and the type of *)
(* the values in front of the stream, and decompressors that read as many  *)
(* points as the envelope says. The C core is what PointCore promises.     *)
(***************************************************************************)
EXTENDS PointCore, SequencesExt

CONSTANTS Points,     \* the points that are appended
          Phantom,    \* a point that was never appended
          MaxPoints,  \* bound: points in all streams
          MaxBatch    \* bound: points in a batch
ASSUME EnvelopeAssumption ==
  /\ Phantom \notin Points
  /\ MaxPoints \in Nat
  /\ MaxBatch \in Nat

Langs == {"cpp", "py", "rust"}
Kinds == {"double", "float"}
KindsIn(l) == IF l = "py" THEN {"double"} ELSE Kinds   \* Python has no other
TagOf(k) == IF k = "double" THEN 0 ELSE 1

Slots == {1, 2}   \* compressor objects; C++ moves streams between them

VARIABLES lang,    \* the language of the compressors
          kind,    \* the type of their values
          handles, \* the objects that have a C compressor
          cores,   \* the C compressor of each, as PointCore sees it
          counts,  \* count_ of each object
          result,  \* what the last append said
          env,     \* the envelope that was serialized, as the reader gets it
          whole,   \* history: the C compressor it was made from
          fresh,   \* history: it was made by an object that had one
          dec,     \* the decompressor
          pos,     \* how many points its C decompressor has delivered
          left,    \* remaining_
          held,    \* current_ of the C++ iterator
          raised,  \* history: its ++ has thrown, and the caller went on
          status,  \* where the reading is
          out      \* the points delivered to the caller

writer == <<lang, kind, handles, cores, counts, result>>
stored == <<env, whole, fresh>>
reader == <<dec, pos, left, held, raised, status, out>>
vars   == <<writer, stored, reader>>

NoEnvelope == [made |-> FALSE]
NoDecoder  == [lang |-> "none"]

Init ==
  /\ lang \in Langs
  /\ kind \in KindsIn(lang)
  /\ handles = IF lang = "cpp" THEN Slots ELSE {1}
  /\ cores = [s \in Slots |-> Empty]
  /\ counts = [s \in Slots |-> 0]
  /\ result = "ok"
  /\ env = NoEnvelope
  /\ whole = Empty
  /\ fresh = TRUE
  /\ dec = NoDecoder
  /\ pos = 0
  /\ left = 0
  /\ held = Phantom
  /\ raised = FALSE
  /\ status = "none"
  /\ out = << >>

(* What bytes returns is a copy: writing on after it changes no envelope, and *)
(* is left out.                                                              *)
Writing == ~ env.made

-----------------------------------------------------------------------------
(* Of the points of a call the core takes the first n, all of them unless it *)
(* is or gets full.                                                          *)
CoreTakes(s, ps, n) ==
  /\ MayTake(cores[s], SubSeq(ps, 1, n))
  /\ cores' = [cores EXCEPT ![s] = Taken(@, SubSeq(ps, 1, n), n < Len(ps))]
  /\ result' = IF cores'[s].full THEN "overflow" ELSE "ok"

(* An append through an object without a handle gets ERR_ARG: C++ throws.    *)
AppendMoved(s) ==
  /\ Writing
  /\ lang = "cpp"
  /\ s \notin handles
  /\ result' = "error"
  /\ UNCHANGED <<lang, kind, handles, cores, counts, stored, reader>>

(* append: counted unless it overflowed. *)
AppendPoint(s, p) ==
  /\ Writing
  /\ s \in handles
  /\ \E n \in {0, 1} :
       /\ CoreTakes(s, <<p>>, n)
       /\ counts' = [counts EXCEPT ![s] = @ + n]
  /\ UNCHANGED <<lang, kind, handles, stored, reader>>

(* Mutant: the status is looked at before the points are counted. *)
AppendBatchStatusFirst(s, ps) ==
  /\ Writing
  /\ s \in handles
  /\ \E n \in 0 .. Len(ps) :
       /\ CoreTakes(s, ps, n)
       /\ counts' = IF result' = "ok" THEN [counts EXCEPT ![s] = @ + n] ELSE counts
  /\ UNCHANGED <<lang, kind, handles, stored, reader>>

(* append_batch, append_slice: what was written is counted before the status *)
(* is looked at.                                                             *)
AppendBatch(s, ps) ==
  /\ Writing
  /\ s \in handles
  /\ \E n \in 0 .. Len(ps) :
       /\ CoreTakes(s, ps, n)
       /\ counts' = [counts EXCEPT ![s] = @ + n]
  /\ UNCHANGED <<lang, kind, handles, stored, reader>>

(* Mutant: the count of the object assigned to is kept. *)
MoveKeepsCount(s, t) ==
  /\ Writing
  /\ lang = "cpp"
  /\ s # t
  /\ handles' = {u \in Slots : u = t /\ s \in handles}
  /\ cores' = [cores EXCEPT ![t] = cores[s], ![s] = Empty]
  /\ UNCHANGED <<lang, kind, counts, result, stored, reader>>

(* The defaulted moves: buffer and handle move, and the stream the object    *)
(* assigned to had is gone; the count is copied, and stays behind.           *)
Move(s, t) ==
  /\ Writing
  /\ lang = "cpp"
  /\ s # t
  /\ handles' = {u \in Slots : u = t /\ s \in handles}
  /\ cores' = [cores EXCEPT ![t] = cores[s], ![s] = Empty]
  /\ counts' = [counts EXCEPT ![t] = counts[s]]
  /\ UNCHANGED <<lang, kind, result, stored, reader>>

(* An envelope around the stream of a core, which is empty without a handle. *)
Pack(core, n, open) ==
  \E s \in WholeStreams(core) :
    /\ env' = [made |-> TRUE, header |-> TRUE, tag |-> TagOf(kind), count |-> n,
               opens |-> open, points |-> s.points, spare |-> s.spare]
    /\ whole' = core
    /\ fresh' = open

(* bytes, and finish, after which the compressor of Rust is gone. *)
Serialize(s) ==
  /\ Writing
  /\ lang # "cpp" => s \in handles
  /\ Pack(cores[s], counts[s], s \in handles)
  /\ handles' = IF lang = "rust" THEN handles \ {s} ELSE handles
  /\ UNCHANGED <<lang, kind, cores, counts, result, reader>>

(* compress_arrays: a compressor of its own, with room for all the points,   *)
(* as EnoughRoom of GorillaStream shows, one batch, and its envelope.        *)
CompressArrays(ps) ==
  /\ Writing
  /\ lang = "py"
  /\ Pack(Taken(Empty, ps, FALSE), Len(ps), TRUE)
  /\ UNCHANGED <<writer, reader>>

(* On its way the envelope loses its end: bytes of the header, so much that  *)
(* no C decompressor opens on the rest, or the end of the stream.            *)
Truncate ==
  /\ env.made /\ dec = NoDecoder
  /\ \/ env' = [env EXCEPT !.header = FALSE]
     \/ env' = [env EXCEPT !.opens = FALSE, !.points = << >>, !.spare = 0]
     \/ \E s \in CutStreams([log |-> env.points, full |-> whole.full]) :
          env' = [env EXCEPT !.points = s.points, !.spare = s.spare]
  /\ UNCHANGED <<writer, whole, fresh, reader>>

-----------------------------------------------------------------------------
(* The C decompressor. One for values of the other type than the stream's,   *)
(* which nothing in the stream tells, would read what was never appended;    *)
(* the others read the points of the stream, the padding, and the end.       *)
Available ==
  IF dec.kind # kind THEN [i \in 1 .. MaxPoints |-> Phantom]
  ELSE env.points \o [i \in 1 .. env.spare |-> Phantom]
AtEnd == pos >= Len(Available)

(* A batch call delivers what there is, but not more than was asked for.     *)
Delivered(n) == SubSeq(Available, 1, IF n <= Len(Available) THEN n ELSE Len(Available))

(* Mutant: the type of the values is not looked at. *)
ConstructAnyTag(l, k) ==
  /\ env.made /\ dec = NoDecoder
  /\ k \in KindsIn(l)
  /\ dec' = [lang |-> l, kind |-> k, count |-> IF env.header THEN env.count ELSE 0]
  /\ status' = IF env.header THEN "idle" ELSE "rejected"
  /\ UNCHANGED <<writer, stored, pos, left, held, raised, out>>

(* The constructor checks the header and the type of the values.             *)
Construct(l, k) ==
  /\ env.made /\ dec = NoDecoder
  /\ k \in KindsIn(l)
  /\ LET good == env.header /\ env.tag = TagOf(k)
     IN  /\ dec' = [lang |-> l, kind |-> k, count |-> IF good THEN env.count ELSE 0]
         /\ status' = IF good THEN "idle" ELSE "rejected"
  /\ UNCHANGED <<writer, stored, pos, left, held, raised, out>>

(* Mutant: what was decoded, without a look at the status. *)
DecodeSome ==
  /\ status = "idle"
  /\ out' = Delivered(dec.count)
  /\ status' = "done"
  /\ UNCHANGED <<writer, stored, dec, pos, left, held, raised>>

(* decode_into, and to_vector, which comes to the same: everything the       *)
(* envelope counts, or an exception. With a count of zero no C decompressor  *)
(* is opened.                                                                *)
DecodeAll ==
  /\ status = "idle"
  /\ IF dec.count <= Len(Available) /\ (dec.count > 0 => env.opens)
     THEN out' = Delivered(dec.count) /\ status' = "done"
     ELSE status' = "threw" /\ UNCHANGED out
  /\ UNCHANGED <<writer, stored, dec, pos, left, held, raised>>

CppDecodeAll == dec.lang = "cpp" /\ DecodeAll

(* decompress, and the iterator of Python, which is one over a list that is  *)
(* decoded before.                                                           *)
PyDecodeAll == dec.lang = "py" /\ DecodeAll

(* decompress_to_arrays: mutable_data(0) of an array without elements throws *)
(* before anything is decoded.                                               *)
PyDecodeArrays ==
  /\ dec.lang = "py"
  /\ \/ dec.count > 0 /\ DecodeAll
     \/ /\ status = "idle" /\ dec.count = 0
        /\ status' = "index_error"
        /\ UNCHANGED <<writer, stored, dec, pos, left, held, raised, out>>

(* to_columns: what was decoded, cut to that length, whatever the status.    *)
RustDecodeAll ==
  /\ status = "idle" /\ dec.lang = "rust"
  /\ IF dec.count > 0 /\ ~ env.opens
     THEN status' = "panicked" /\ UNCHANGED out
     ELSE out' = Delivered(dec.count) /\ status' = "done"
  /\ UNCHANGED <<writer, stored, dec, pos, left, held, raised>>

(* One point from the C decompressor. *)
Deliver ==
  /\ pos' = pos + 1
  /\ out' = Append(out, Available[pos + 1])

(* Mutants: a fetch clears current_ and then fails; or the iterator does not *)
(* notice that nothing remains.                                              *)
CppFetchClears ==
  IF left' = 0 THEN status' = "done" /\ UNCHANGED <<pos, held, raised, out>>
  ELSE IF AtEnd \/ ~ env.opens
       THEN /\ status' = IF status = "idle" THEN "threw" ELSE status
            /\ raised' = (status # "idle")
            /\ held' = Phantom
            /\ UNCHANGED <<pos, out>>
       ELSE Deliver /\ held' = Available[pos + 1] /\ status' = "iterating" /\ UNCHANGED raised
CppFetchMore ==
  IF AtEnd \/ ~ env.opens THEN status' = "threw" /\ UNCHANGED <<pos, held, raised, out>>
  ELSE Deliver /\ held' = Available[pos + 1] /\ status' = "iterating" /\ UNCHANGED raised

(* fetch: an exception of ++, unlike that of begin, leaves the caller with   *)
(* the iterator, and in it the point it had; ++ may then be called again.    *)
CppFetch ==
  IF left' = 0 THEN status' = "done" /\ UNCHANGED <<pos, held, raised, out>>
  ELSE IF AtEnd \/ ~ env.opens
       THEN /\ status' = IF status = "idle" THEN "threw" ELSE status
            /\ raised' = (status # "idle")
            /\ UNCHANGED <<pos, held, out>>
       ELSE Deliver /\ held' = Available[pos + 1] /\ status' = "iterating" /\ UNCHANGED raised

(* The C++ iterator reads one point ahead; ++ counts down before it fetches. *)
CppBegin ==
  /\ status = "idle" /\ dec.lang = "cpp"
  /\ left' = dec.count
  /\ CppFetch
  /\ UNCHANGED <<writer, stored, dec>>

(* Mutant: ++ counts a point down when it has the next one. *)
CppNextAfterFetch ==
  /\ status = "iterating" /\ dec.lang = "cpp"
  /\ left' = IF left > 1 /\ (AtEnd \/ ~ env.opens) THEN left ELSE left - 1
  /\ CppFetch
  /\ UNCHANGED <<writer, stored, dec>>

CppNext ==
  /\ status = "iterating" /\ dec.lang = "cpp"
  /\ left' = left - 1
  /\ CppFetch
  /\ UNCHANGED <<writer, stored, dec>>

RustIter ==
  /\ status = "idle" /\ dec.lang = "rust"
  /\ left' = dec.count
  /\ status' = IF env.opens THEN "iterating" ELSE "panicked"
  /\ UNCHANGED <<writer, stored, dec, pos, held, raised, out>>

(* The Rust iterator reads on demand, and every error ends the series.       *)
RustNext ==
  /\ status = "iterating" /\ dec.lang = "rust"
  /\ IF left = 0 \/ AtEnd
     THEN left' = 0 /\ status' = "done" /\ UNCHANGED <<pos, out>>
     ELSE left' = left - 1 /\ Deliver /\ UNCHANGED status
  /\ UNCHANGED <<writer, stored, dec, held, raised>>

Room(n) == Len(cores[1].log) + Len(cores[2].log) + n <= MaxPoints

Next ==
  \/ \E s \in Slots :
       \/ AppendMoved(s)
       \/ \E p \in Points : Room(1) /\ AppendPoint(s, p)
       \/ \E n \in 0 .. MaxBatch : \E ps \in [1 .. n -> Points] : Room(n) /\ AppendBatch(s, ps)
       \/ \E t \in Slots : Move(s, t)
       \/ Serialize(s)
  \/ \E n \in 0 .. MaxPoints : \E ps \in [1 .. n -> Points] : CompressArrays(ps)
  \/ Truncate
  \/ \E l \in Langs, k \in Kinds : Construct(l, k)
  \/ CppDecodeAll \/ PyDecodeAll \/ PyDecodeArrays \/ RustDecodeAll
  \/ CppBegin \/ CppNext \/ RustIter \/ RustNext

(* A loop over an iterator goes on until it is over, also one that catches   *)
(* exceptions.                                                               *)
Spec == Init /\ [][Next]_vars /\ WF_vars(CppNext) /\ WF_vars(RustNext)

-----------------------------------------------------------------------------
Cores == [log : Seq(Points), full : BOOLEAN]

TypeOK ==
  /\ lang \in Langs /\ kind \in Kinds
  /\ handles \subseteq Slots
  /\ cores \in [Slots -> Cores]
  /\ counts \in [Slots -> 0 .. MaxPoints]
  /\ result \in {"ok", "overflow", "error"}
  /\ left \in 0 .. MaxPoints
  /\ pos \in 0 .. MaxPoints + MostPadding
  /\ held \in Points \cup {Phantom}
  /\ raised \in BOOLEAN
  /\ status \in {"none", "rejected", "idle", "iterating", "done", "threw", "index_error",
                 "panicked"}
  /\ out \in Seq(Points \cup {Phantom})

(* The count in an envelope is the number of points in the stream behind it, *)
(* however the points came, wherever the buffer filled up and between        *)
(* whatever objects the stream was moved, unless the object that made the    *)
(* envelope had been moved from.                                             *)
EnvelopeCount == env.made /\ fresh => env.count = Len(whole.log)

(* No reader in any language delivers anything but the points that were      *)
(* appended, in order: no padding, nothing from a stream that lost its end   *)
(* on the way, and nothing from a stream of values of the other type.        *)
OnlyTheSeries == IsPrefix(out, whole.log)

(* A C++ or Python reading that ends without an exception has delivered      *)
(* every point that the envelope counts.                                     *)
AllOrThrow ==
  status = "done" /\ dec.lang # "rust" /\ ~ raised => Len(out) = dec.count

(* The envelope arrives as it was made, by an object that had a stream.      *)
Untouched == env.made /\ fresh /\ env.header /\ env.opens /\ env.points = whole.log

(* An envelope that arrives as it was made is refused by the decompressors   *)
(* for values of the other type and by no other, whatever the languages, and *)
(* every way to read it delivers the whole series and meets no error; only   *)
(* decompress_to_arrays of Python has none for a series without points.      *)
Interoperable ==
  Untouched /\ dec # NoDecoder
    => /\ status = "rejected" <=> dec.kind # kind
       /\ status \notin {"threw", "panicked"} /\ ~ raised
       /\ status = "index_error" => dec.lang = "py" /\ whole.log = << >>
       /\ status = "done" => out = whole.log

(* A C++ iterator always shows the last point that was delivered, also after *)
(* an exception of ++: a caller that goes on reads that point again, and     *)
(* never half of a torn one.                                                 *)
HeldPointIsLast ==
  status = "iterating" /\ dec.lang = "cpp" => out # << >> /\ held = out[Len(out)]

(* A loop over an iterator comes to its end, also when it catches what ++    *)
(* throws and goes on.                                                       *)
IterationEnds == status = "iterating" ~> status = "done"

(* What the Rust crate says of its errors: Truncated, when the stream ended  *)
(* before the recorded number of points was decoded.                         *)
RustReportsTruncation ==
  status = "done" /\ dec.lang = "rust" => Len(out) = dec.count
=============================================================================

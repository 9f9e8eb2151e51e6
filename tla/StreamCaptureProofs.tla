------------------------- MODULE StreamCaptureProofs -------------------------
(***************************************************************************)
(* Proofs about StreamCapture, for all texts, limits and buffer sizes, in    *)
(* every interleaving of the tool, the readers and the main thread.         *)
(*                                                                         *)
(* What a reader has taken and what is still in its pipe is at any time all  *)
(* that was written; what the reader has is of one piece, in memory and in   *)
(* the file; and the validator has passed a prefix of whole scalars.        *)
(***************************************************************************)
EXTENDS StreamCapture, WellFoundedInduction, SequenceTheorems, TLAPS

Capturing == {"spawn", "stdout", "stderr", "wait", "join"}
Using == {"validate stdout", "validate stderr", "parse"}
Ending == {"drop", "done"}

Captured == [retained: Seq(Bytes), spilled: BOOLEAN, spill: Seq(Bytes), total: Nat]

Types ==
    /\ script \in [Streams -> Seq(Bytes)]
    /\ pipe \in [Streams -> Seq(Bytes)]
    /\ written \in [Streams -> Seq(Bytes)]
    /\ reader \in [Streams -> {"none", "reading", "done", "failed"}]
    /\ stream \in [Streams -> Captured]
    /\ files \subseteq Streams
    /\ main \in Capturing \cup Using \cup Ending
    /\ check \in [passed: Nat, held: Nat]

\* All that a reader has taken, as open_reader gives it.
Taken(c) == IF c.spilled THEN c.spill ELSE c.retained

\* What is in memory is the beginning of what was taken: all of it, or as much as
\* there is room for.
OfOnePiece(c) ==
    /\ c.total = Len(Taken(c)) /\ c.total <= Limit
    /\ Len(c.retained) <= InMemory
    /\ ~c.spilled => c.spill = <<>>
    /\ c.spilled =>
          /\ InMemory < Len(c.spill)
          /\ c.retained = SubSeq(c.spill, 1, InMemory)

CapturesAreOfOnePiece == \A s \in Streams : OfOnePiece(stream[s])

\* Every byte is in the pipe or taken, until the reader fails; when it is done they
\* are all taken.
NoByteIsSkipped ==
    \A s \in Streams :
        /\ reader[s] # "failed" => Complete(s) \o pipe[s] = written[s]
        /\ reader[s] = "done" => pipe[s] = <<>>

\* Which readers there are, where the main thread is.
ReadersFollowMain ==
    /\ main \in {"spawn", "stdout"} => \A s \in Streams : reader[s] = "none"
    /\ main = "stderr" => reader["stderr"] = "none"
    /\ main \in Using => failure = "none" /\ \A s \in Streams : reader[s] = "done"
    /\ main \in Ending => \A s \in Streams : reader[s] # "reading"
    /\ main = "done" => files = {}

\* The validator has passed whole scalars, and what it holds back begins one.
PassedIsWhole(s) ==
    /\ check.passed \in Whole(Complete(s))
    /\ check.held \in {0, 1}
    /\ check.passed + check.held <= Len(Complete(s))
    /\ check.held = 1 => Complete(s)[check.passed + 1] = "L"

ValidatorIsWhole ==
    /\ main \in Capturing => check = [passed |-> 0, held |-> 0]
    /\ main = "validate stdout" => PassedIsWhole("stdout")
    /\ main = "validate stderr" => PassedIsWhole("stderr") /\ Valid(Complete("stdout"))
    /\ main = "parse" => \A s \in Streams : Valid(Complete(s))

\* A run that ends without a failure has parsed valid texts, and one that refuses a
\* text has read it to its end.
ResultIsFounded ==
    /\ main \in Ending /\ failure = "none" =>
          /\ \A s \in Streams :
                reader[s] = "done" /\ Valid(Complete(s)) /\ text[s] = Retained(s)
          /\ parsed = Combined(Complete("stdout"), Complete("stderr"))
    /\ failure = "utf8" =>
          /\ main \in Ending
          /\ \E s \in Streams : reader[s] = "done" /\ ~Valid(Complete(s))

IInv ==
    /\ Types
    /\ CapturesAreOfOnePiece
    /\ NoByteIsSkipped
    /\ ReadersFollowMain
    /\ ValidatorIsWhole
    /\ ResultIsFounded

-----------------------------------------------------------------------------
(***************************************************************************)
(* Texts: what from_utf8 says of the parts of a text.                       *)
(***************************************************************************)

\* A set of naturals with a bound has a largest element.
LEMMA LargestNatural ==
    ASSUME NEW n \in Nat, NEW S, S \subseteq 0 .. n, S # {}
    PROVE  \E m \in S : \A k \in S : k <= m
<1> DEFINE T == {n - k : k \in S}
<1>1. T \subseteq Nat /\ T # {}
  <2>1. \A k \in S : n - k \in Nat
    OBVIOUS
  <2> QED
    BY <2>1
<1>2. PICK x \in T : \A y \in T : ~(<<y, x>> \in OpToRel(<, Nat))
  <2> HIDE DEF T
  <2> QED
    BY <1>1, WFMin, NatLessThanWellFounded
<1>3. \A y \in T : x <= y
  <2> SUFFICES ASSUME NEW y \in T PROVE x <= y
    OBVIOUS
  <2>1. x \in Nat /\ y \in Nat
    BY <1>1
  <2>2. ~(y < x)
    BY <1>2, <2>1 DEF OpToRel
  <2> QED
    BY <2>1, <2>2
<1>4. PICK m \in S : x = n - m
  BY <1>2
<1>5. \A k \in S : k <= m
  <2> SUFFICES ASSUME NEW k \in S PROVE k <= m
    OBVIOUS
  <2>1. n - m <= n - k
    BY <1>3, <1>4
  <2> QED
    BY <2>1
<1> QED
  BY <1>5

\* Some of a text is whole, if it is only its empty beginning, and from_utf8 finds
\* how much.
LEMMA ValidUpToIsLargest ==
    ASSUME NEW t \in Seq(Bytes)
    PROVE  /\ ValidUpTo(t) \in Whole(t)
           /\ ValidUpTo(t) \in 0 .. Len(t)
           /\ \A m \in Whole(t) : m <= ValidUpTo(t)
<1>1. Len(t) \in Nat
  BY LenProperties
<1>2. Whole(t) \subseteq 0 .. Len(t) /\ 0 \in Whole(t)
  BY <1>1 DEF Whole
<1>3. \E m \in Whole(t) : \A k \in Whole(t) : k <= m
  BY <1>1, <1>2, LargestNatural
<1> QED
  BY <1>2, <1>3 DEF ValidUpTo

\* The empty beginning of a text is whole.
LEMMA NothingIsWhole ==
    ASSUME NEW t \in Seq(Bytes)
    PROVE  0 \in Whole(t) /\ Len(t) \in Nat
BY LenProperties DEF Whole

\* A part of a text has the bytes of that text.
LEMMA CutOut ==
    ASSUME NEW t \in Seq(Bytes), NEW p \in Nat, NEW e \in p .. Len(t)
    PROVE  LET cut == SubSeq(t, p + 1, e)
           IN  /\ cut \in Seq(Bytes)
               /\ Len(cut) = e - p
               /\ \A i \in 1 .. e - p : cut[i] = t[p + i]
<1>1. Len(t) \in Nat /\ \A i \in 1 .. Len(t) : t[i] \in Bytes
  BY LenProperties, ElementOfSeq
<1>2. \A i \in p + 1 .. e : t[i] \in Bytes
  BY <1>1
<1> QED
  BY <1>1, <1>2, SubSeqProperties

\* What the validator sees of a text, from where it is up to e.
Cut(t, p, e) == SubSeq(t, p + 1, e)

\* What a read takes out of a valid text, from a boundary on, is whole or ends in
\* the first byte of a scalar.
LEMMA CutOfValid ==
    ASSUME NEW t \in Seq(Bytes), Valid(t), NEW p \in Whole(t), NEW e \in p .. Len(t)
    PROVE  ValidUpTo(Cut(t, p, e)) = Len(Cut(t, p, e)) \/ HeldBack(Cut(t, p, e))
<1> DEFINE cut == SubSeq(t, p + 1, e)
           n == e - p
<1>1. Len(t) \in Nat /\ p \in Nat /\ e \in Nat /\ n \in Nat
  BY LenProperties DEF Whole
<1>2. cut \in Seq(Bytes) /\ Len(cut) = n /\ \A i \in 1 .. n : cut[i] = t[p + i]
  BY <1>1, CutOut
<1> HIDE DEF cut
<1>3. \A k \in 1 .. Len(t) :
         /\ t[k] = "L" => k < Len(t) /\ t[k + 1] = "C"
         /\ t[k] = "C" => k > 1 /\ t[k - 1] = "L"
  BY DEF Valid, Whole
<1>4. p > 0 => t[p] # "L"
  BY <1>1 DEF Whole
<1>5. ASSUME NEW k \in 1 .. n, cut[k] = "C" PROVE k > 1 /\ cut[k - 1] = "L"
  <2> DEFINE i == p + k
  <2>1. i \in 1 .. Len(t) /\ t[i] = "C"
    BY <1>1, <1>2, <1>5
  <2>2. i > 1 /\ t[i - 1] = "L"
    <3> HIDE DEF i
    <3> QED
      BY <1>3, <2>1
  <2>3. k > 1
    BY <1>1, <1>4, <2>2
  <2>4. k - 1 \in 1 .. n /\ p + (k - 1) = i - 1
    BY <1>1, <2>3
  <2> QED
    BY <1>2, <2>2, <2>3, <2>4
<1>6. ASSUME NEW k \in 1 .. n, cut[k] = "L", k < n PROVE cut[k + 1] = "C"
  <2>1. p + k \in 1 .. Len(t) /\ t[p + k] = "L"
    BY <1>1, <1>2, <1>6
  <2>2. k + 1 \in 1 .. n /\ p + (k + 1) = (p + k) + 1
    BY <1>1, <1>6
  <2>3. t[(p + k) + 1] = "C"
    BY <1>3, <2>1
  <2> QED
    BY <1>2, <2>2, <2>3
<1>7. CASE n = 0 \/ cut[n] # "L"
  <2>1. n \in Whole(cut)
    BY <1>1, <1>2, <1>5, <1>6, <1>7 DEF Whole
  <2>2. n <= ValidUpTo(cut) /\ ValidUpTo(cut) \in 0 .. n
    BY <1>2, <2>1, ValidUpToIsLargest
  <2> QED
    BY <1>1, <1>2, <2>2 DEF cut, Cut
<1>8. CASE n # 0 /\ cut[n] = "L"
  <2>1. n - 1 \in Whole(cut)
    <3>1. n - 1 \in 0 .. Len(cut)
      BY <1>1, <1>2, <1>8
    <3>2. ASSUME NEW k \in 1 .. n - 1, cut[k] = "L" PROVE k < n - 1 /\ cut[k + 1] = "C"
      <4>1. cut[k + 1] = "C"
        BY <1>1, <1>6, <3>2
      <4> QED
        BY <1>1, <1>8, <4>1
    <3> QED
      BY <1>1, <1>5, <3>1, <3>2 DEF Whole
  <2>2. n - 1 <= ValidUpTo(cut) /\ ValidUpTo(cut) \in 0 .. n
    BY <1>2, <2>1, ValidUpToIsLargest
  <2>3. ValidUpTo(cut) = n \/ ValidUpTo(cut) + 1 = n
    BY <1>1, <2>2
  <2> QED
    BY <1>2, <1>8, <2>3 DEF HeldBack, Unfinished, cut, Cut
<1> QED
  BY <1>1, <1>7, <1>8

\* And a read that is whole, or nearly, takes the validator to the next boundary.
LEMMA ValidatorMoves ==
    ASSUME NEW t \in Seq(Bytes), NEW p \in Whole(t), NEW e \in p .. Len(t)
    PROVE  LET cut == Cut(t, p, e)
               good == ValidUpTo(cut)
           IN  good = Len(cut) \/ HeldBack(cut) =>
                  /\ p + good \in Whole(t)
                  /\ Len(cut) - good \in {0, 1}
                  /\ p + good + (Len(cut) - good) <= Len(t)
                  /\ Len(cut) - good = 1 => t[p + good + 1] = "L"
                  /\ good \in Nat
<1> DEFINE cut == Cut(t, p, e)
           good == ValidUpTo(cut)
<1> SUFFICES ASSUME good = Len(cut) \/ HeldBack(cut)
             PROVE  /\ p + good \in Whole(t)
                    /\ Len(cut) - good \in {0, 1}
                    /\ p + good + (Len(cut) - good) <= Len(t)
                    /\ Len(cut) - good = 1 => t[p + good + 1] = "L"
                    /\ good \in Nat
  OBVIOUS
<1> DEFINE n == e - p
<1>1. Len(t) \in Nat /\ p \in Nat /\ e \in Nat /\ n \in Nat
  BY LenProperties DEF Whole
<1>2. cut \in Seq(Bytes) /\ Len(cut) = n /\ \A i \in 1 .. n : cut[i] = t[p + i]
  BY <1>1, CutOut DEF Cut
<1>3. good \in Whole(cut) /\ good \in 0 .. n
  BY <1>2, ValidUpToIsLargest
<1> HIDE DEF good, cut
<1>4. p + good \in Whole(t)
  <2>1. p + good \in 0 .. Len(t)
    BY <1>1, <1>3
  <2>2. ASSUME NEW k \in 1 .. p + good
        PROVE  /\ t[k] = "L" => k < p + good /\ t[k + 1] = "C"
               /\ t[k] = "C" => k > 1 /\ t[k - 1] = "L"
    <3>1. CASE k <= p
      BY <1>1, <1>3, <3>1 DEF Whole
    <3>2. CASE k > p
      <4> DEFINE i == k - p
      <4>1. i \in 1 .. good /\ i \in 1 .. n /\ k = p + i
        BY <1>1, <1>3, <3>2
      <4>2. /\ cut[i] = "L" => i < good /\ cut[i + 1] = "C"
            /\ cut[i] = "C" => i > 1 /\ cut[i - 1] = "L"
        BY <1>3, <4>1 DEF Whole
      <4>3. cut[i] = t[k]
        BY <1>2, <4>1
      <4>4. i < good => cut[i + 1] = t[k + 1]
        <5>1. i < good => i + 1 \in 1 .. n /\ p + (i + 1) = k + 1
          BY <1>1, <1>3, <4>1
        <5> QED
          BY <1>2, <5>1
      <4>5. i > 1 => cut[i - 1] = t[k - 1]
        <5>1. i > 1 => i - 1 \in 1 .. n /\ p + (i - 1) = k - 1
          BY <1>1, <4>1
        <5> QED
          BY <1>2, <5>1
      <4> QED
        BY <1>1, <1>3, <4>1, <4>2, <4>3, <4>4, <4>5
    <3> QED
      BY <1>1, <1>3, <3>1, <3>2
  <2> QED
    BY <2>1, <2>2 DEF Whole
<1>5. n - good \in {0, 1} /\ (n - good = 1 => t[p + good + 1] = "L")
  <2>1. CASE good = n
    BY <1>1, <2>1
  <2>2. CASE good + 1 = n /\ cut[n] = "L"
    <3>1. t[p + n] = "L" /\ p + n = p + good + 1
      BY <1>1, <1>2, <1>3, <2>2
    <3> QED
      BY <1>1, <1>3, <2>2, <3>1
  <2> QED
    BY <1>2, <2>1, <2>2 DEF HeldBack, Unfinished, good
<1> QED
  BY <1>1, <1>2, <1>3, <1>4, <1>5

\* A text that ends in the first byte of a scalar is malformed.
LEMMA CutScalarIsInvalid ==
    ASSUME NEW t \in Seq(Bytes), Len(t) # 0, t[Len(t)] = "L"
    PROVE  ~Valid(t)
BY LenProperties DEF Valid, Whole

\* One read of the validator, up to e: at the end of the text it knows whether the
\* text is valid; before that it moves on, or has seen that it is not.
LEMMA ValidatorStep ==
    ASSUME NEW t \in Seq(Bytes), NEW p \in Nat, NEW h \in 0 .. 1, NEW e \in p .. Len(t),
           p \in Whole(t), h = 1 => t[p + 1] = "L", p + h <= e, e = p + h => e = Len(t)
    PROVE  LET seen == Cut(t, p, e)
               good == ValidUpTo(seen)
           IN  /\ e = p + h /\ h = 0 => Valid(t)
               /\ e = p + h /\ h > 0 => ~Valid(t)
               /\ good < Len(seen) /\ ~HeldBack(seen) => ~Valid(t)
<1> DEFINE seen == Cut(t, p, e)
           good == ValidUpTo(seen)
<1>1. Len(t) \in Nat
  BY LenProperties
<1>2. e = p + h /\ h = 0 => Valid(t)
  BY <1>1 DEF Valid
<1>3. ASSUME e = p + h, h > 0 PROVE ~Valid(t)
  BY <1>1, <1>3, CutScalarIsInvalid
<1>4. ASSUME good < Len(seen), ~HeldBack(seen) PROVE ~Valid(t)
  <2>1. good \in Nat /\ Len(seen) \in Nat
    <3>1. seen \in Seq(Bytes)
      BY <1>1, CutOut DEF Cut
    <3> QED
      BY <3>1, ValidUpToIsLargest, LenProperties
  <2>2. Valid(t) => good = Len(seen) \/ HeldBack(seen)
    BY CutOfValid
  <2> QED
    BY <1>4, <2>1, <2>2
<1> QED
  BY <1>2, <1>3, <1>4

\* The whole part of a text is valid.
LEMMA WholePartIsValid ==
    ASSUME NEW t \in Seq(Bytes), NEW v \in Whole(t)
    PROVE  /\ SubSeq(t, 1, v) \in Seq(Bytes) /\ Len(SubSeq(t, 1, v)) = v
           /\ Valid(SubSeq(t, 1, v))
<1>1. Len(t) \in Nat /\ v \in 0 .. Len(t)
  BY LenProperties DEF Whole
<1> DEFINE u == SubSeq(t, 1, v)
<1>2. u \in Seq(Bytes) /\ Len(u) = v /\ \A i \in 1 .. v : u[i] = t[i]
  BY <1>1, CutOut
<1> HIDE DEF u
<1>3. v \in Whole(u)
  <2> SUFFICES ASSUME NEW k \in 1 .. v
               PROVE  /\ u[k] = "L" => k < v /\ u[k + 1] = "C"
                      /\ u[k] = "C" => k > 1 /\ u[k - 1] = "L"
    BY <1>1, <1>2 DEF Whole
  <2>1. /\ t[k] = "L" => k < v /\ t[k + 1] = "C"
        /\ t[k] = "C" => k > 1 /\ t[k - 1] = "L"
    BY DEF Whole
  <2>2. k < v => u[k + 1] = t[k + 1]
    BY <1>1, <1>2
  <2>3. k > 1 => u[k - 1] = t[k - 1]
    BY <1>1, <1>2
  <2> QED
    BY <1>2, <2>1, <2>2, <2>3
<1> QED
  BY <1>2, <1>3 DEF Valid, u

-----------------------------------------------------------------------------
(***************************************************************************)
(* Captures: what a reader keeps of a chunk.                                *)
(***************************************************************************)

\* The reader keeps the smaller of the two limits in memory.
LEMMA InMemoryIsBound ==
    /\ InMemory \in Nat \ {0} /\ InMemory <= Retention /\ InMemory <= Limit
    /\ InMemory = Retention \/ InMemory = Limit
    /\ Limit \in Nat /\ Retention \in Nat
BY CaptureAssumption DEF InMemory

\* Texts are joined in any order of joining.
LEMMA TextsAssociate ==
    \A a, b, c \in Seq(Bytes) : (a \o b) \o c = a \o (b \o c)
BY ConcatAssociative

\* A chunk within the limit is added to what was taken, and what is in memory is
\* its beginning.
LEMMA KeepAdds ==
    ASSUME NEW c \in Captured, OfOnePiece(c),
           NEW chunk \in Seq(Bytes), WithinLimit(c, Len(chunk))
    PROVE  /\ Keep(c, chunk) \in Captured
           /\ OfOnePiece(Keep(c, chunk))
           /\ Taken(Keep(c, chunk)) = Taken(c) \o chunk
<1> DEFINE k == Keep(c, chunk)
           all == Taken(c) \o chunk
<1>1. /\ c.retained \in Seq(Bytes) /\ c.spill \in Seq(Bytes) /\ Taken(c) \in Seq(Bytes)
      /\ c.total \in Nat /\ c.spilled \in BOOLEAN
      /\ c = [retained |-> c.retained, spilled |-> c.spilled, spill |-> c.spill, total |-> c.total]
  BY DEF Captured, Taken
<1>2. /\ all \in Seq(Bytes) /\ Len(all) = c.total + Len(chunk)
      /\ Len(chunk) \in Nat /\ Len(all) <= Limit
      /\ \A i \in 1 .. Len(Taken(c)) + Len(chunk) :
            all[i] = IF i <= Len(Taken(c)) THEN Taken(c)[i] ELSE chunk[i - Len(Taken(c))]
  BY <1>1, ConcatProperties, LenProperties DEF OfOnePiece, WithinLimit
<1>3. CASE c.spilled
  <2>1. k = [c EXCEPT !.spill = @ \o chunk, !.total = @ + Len(chunk)]
    BY <1>3 DEF Keep
  <2> Taken(c) = c.spill
    BY <1>3 DEF Taken
  <2>2. k = [retained |-> c.retained, spilled |-> TRUE, spill |-> all, total |-> c.total + Len(chunk)]
    <3> HIDE DEF k
    <3> QED
      BY <1>1, <1>3, <2>1
  <2> HIDE DEF k, all
  <2> /\ k.retained = c.retained /\ k.spilled /\ k.spill = all /\ k.total = c.total + Len(chunk)
      /\ k \in Captured /\ Taken(k) = all
    BY <1>1, <1>2, <2>2 DEF Captured, Taken
  <2>3. c.retained = SubSeq(all, 1, InMemory)
    <3>1. InMemory \in 1 .. Len(c.spill) /\ 1 \in 1 .. Len(c.spill)
      BY <1>1, <1>3, InMemoryIsBound, LenProperties DEF OfOnePiece
    <3>2. SubSeq(c.spill \o chunk, 1, InMemory) = SubSeq(c.spill, 1, InMemory)
      BY <1>1, <3>1, SubSeqOfConcat1
    <3> QED
      BY <1>3, <3>2 DEF OfOnePiece, all
  <2>4. InMemory < Len(all)
    BY <1>1, <1>2, <1>3, InMemoryIsBound, LenProperties DEF OfOnePiece, Taken
  <2> QED
    BY <1>2, <1>3, <2>3, <2>4 DEF OfOnePiece, k, all
<1>4. CASE ~c.spilled /\ c.total + Len(chunk) <= InMemory
  <2>1. k = [c EXCEPT !.retained = @ \o chunk, !.total = @ + Len(chunk)]
    BY <1>4 DEF Keep
  <2> Taken(c) = c.retained
    BY <1>4 DEF Taken
  <2>2. k = [retained |-> all, spilled |-> FALSE, spill |-> c.spill, total |-> c.total + Len(chunk)]
    <3> HIDE DEF k
    <3> QED
      BY <1>1, <1>4, <2>1
  <2> HIDE DEF k, all
  <2> /\ k.retained = all /\ ~k.spilled /\ k.spill = c.spill /\ k.total = c.total + Len(chunk)
      /\ k \in Captured /\ Taken(k) = all
    BY <1>1, <1>2, <2>2 DEF Captured, Taken
  <2> QED
    BY <1>2, <1>4 DEF OfOnePiece, k, all
<1>5. CASE ~c.spilled /\ c.total + Len(chunk) > InMemory
  <2> DEFINE room == InMemory - Len(c.retained)
  <2>1. ~(c.total + Len(chunk) <= InMemory)
    BY <1>1, <1>2, <1>5, InMemoryIsBound
  <2>2. k = [retained |-> c.retained \o SubSeq(chunk, 1, room), spilled |-> TRUE,
             spill |-> c.retained \o chunk, total |-> c.total + Len(chunk)]
    BY <1>5, <2>1 DEF Keep, StartSpill
  <2>3. /\ c.total = Len(c.retained) /\ Taken(c) = c.retained
        /\ Len(c.retained) \in Nat /\ room \in 0 .. Len(chunk)
    BY <1>1, <1>2, <1>5, InMemoryIsBound, LenProperties DEF OfOnePiece, Taken
  <2> DEFINE head == SubSeq(chunk, 1, room)
  <2>4. head \in Seq(Bytes) /\ Len(head) = room /\ \A i \in 1 .. room : head[i] = chunk[i]
    <3>1. \A i \in 1 .. room : chunk[i] \in Bytes
      BY <1>2, <2>3, ElementOfSeq
    <3> QED
      BY <2>3, <3>1, SubSeqProperties
  <2> HIDE DEF head
  <2>5. /\ c.retained \o head \in Seq(Bytes) /\ Len(c.retained \o head) = InMemory
        /\ \A i \in 1 .. InMemory : (c.retained \o head)[i] =
              IF i <= Len(c.retained) THEN c.retained[i] ELSE head[i - Len(c.retained)]
    <3>1. Len(c.retained) + Len(head) = InMemory
      BY <2>3, <2>4, InMemoryIsBound
    <3> QED
      BY <1>1, <2>4, <3>1, ConcatProperties
  <2>6. /\ SubSeq(all, 1, InMemory) \in Seq(Bytes) /\ Len(SubSeq(all, 1, InMemory)) = InMemory
        /\ \A i \in 1 .. InMemory : SubSeq(all, 1, InMemory)[i] = all[i]
    <3>1. \A i \in 1 .. InMemory : all[i] \in Bytes
      BY <1>2, <1>5, InMemoryIsBound, ElementOfSeq
    <3> HIDE DEF all
    <3> QED
      BY <3>1, SubSeqProperties, InMemoryIsBound
  <2>7. \A i \in 1 .. InMemory : (c.retained \o head)[i] = all[i]
    <3> SUFFICES ASSUME NEW i \in 1 .. InMemory PROVE (c.retained \o head)[i] = all[i]
      OBVIOUS
    <3>1. i \in 1 .. Len(Taken(c)) + Len(chunk)
      BY <1>2, <1>5, <2>3, InMemoryIsBound
    <3>2. CASE i <= Len(c.retained)
      <4>1. (c.retained \o head)[i] = c.retained[i]
        BY <2>5, <3>2
      <4>2. all[i] = c.retained[i]
        BY <1>2, <2>3, <3>1, <3>2
      <4> QED
        BY <4>1, <4>2
    <3>3. CASE i > Len(c.retained)
      <4>1. i - Len(c.retained) \in 1 .. room
        BY <2>3, <3>3, InMemoryIsBound
      <4>2. ~(i <= Len(c.retained))
        BY <2>3, <3>3
      <4>3. (c.retained \o head)[i] = chunk[i - Len(c.retained)]
        BY <2>4, <2>5, <4>1, <4>2
      <4>4. all[i] = chunk[i - Len(c.retained)]
        BY <1>2, <2>3, <3>1, <4>2
      <4> QED
        BY <4>3, <4>4
    <3>4. i <= Len(c.retained) \/ i > Len(c.retained)
      BY <2>3, InMemoryIsBound
    <3> QED
      BY <3>2, <3>3, <3>4
  <2>8. c.retained \o head = SubSeq(all, 1, InMemory)
    <3> HIDE DEF all
    <3> QED
      BY <2>5, <2>6, <2>7, SeqEqual
  <2>9. k = [retained |-> c.retained \o head, spilled |-> TRUE, spill |-> all,
             total |-> c.total + Len(chunk)]
    BY <2>2, <2>3 DEF head
  <2> HIDE DEF k, all
  <2>10. /\ k.retained = c.retained \o head /\ k.spilled /\ k.spill = all
         /\ k.total = c.total + Len(chunk) /\ Taken(k) = all /\ k \in Captured
    BY <1>1, <1>2, <2>5, <2>9 DEF Captured, Taken
  <2> QED
    BY <1>2, <1>5, <2>5, <2>8, <2>10, InMemoryIsBound DEF OfOnePiece, k, all
<1> QED
  BY <1>1, <1>2, <1>3, <1>4, <1>5, InMemoryIsBound

-----------------------------------------------------------------------------
(***************************************************************************)
(* The invariant.                                                          *)
(***************************************************************************)

\* What open_reader gives is a text.
LEMMA CompleteIsText ==
    ASSUME Types, NEW s \in Streams
    PROVE  /\ stream[s] \in Captured /\ pipe[s] \in Seq(Bytes) /\ written[s] \in Seq(Bytes)
           /\ Complete(s) = Taken(stream[s])
           /\ Complete(s) \in Seq(Bytes) /\ Len(Complete(s)) \in Nat
<1>1. stream[s] \in Captured /\ pipe[s] \in Seq(Bytes) /\ written[s] \in Seq(Bytes)
  BY DEF Types
<1>2. Complete(s) = Taken(stream[s]) /\ Complete(s) \in Seq(Bytes)
  BY <1>1 DEF Complete, Taken, Captured
<1> QED
  BY <1>1, <1>2, LenProperties

\* At first nothing is captured.
LEMMA InitInv == Init => IInv
<1> SUFFICES ASSUME Init PROVE IInv
  OBVIOUS
<1>1. Types
  <2>1. <<>> \in Seq(Bytes)
    BY EmptySeq
  <2>2. Nothing \in Captured
    BY <2>1 DEF Nothing, Captured
  <2>3. script \in [Streams -> Seq(Bytes)]
    BY CaptureAssumption DEF Init
  <2> QED
    BY <2>1, <2>2, <2>3 DEF Init, Types, Capturing
<1>2. \A s \in Streams : stream[s] = Nothing /\ Complete(s) = <<>>
  BY DEF Init, Complete, Nothing
<1>3. CapturesAreOfOnePiece
  <2>1. OfOnePiece(Nothing)
    BY EmptySeq, InMemoryIsBound DEF OfOnePiece, Nothing, Taken
  <2> QED
    BY <1>2, <2>1 DEF CapturesAreOfOnePiece
<1>4. NoByteIsSkipped
  <2>1. <<>> \o <<>> = <<>>
    BY EmptySeq, ConcatEmptySeq
  <2> QED
    BY <1>2, <2>1 DEF Init, NoByteIsSkipped
<1>5. ReadersFollowMain /\ ValidatorIsWhole /\ ResultIsFounded
  BY DEF Init, ReadersFollowMain, ValidatorIsWhole, ResultIsFounded, Using, Ending
<1> QED
  BY <1>1, <1>3, <1>4, <1>5 DEF IInv

\* A reader that starts or fails takes nothing.
LEMMA CapturesStay ==
    ASSUME CapturesAreOfOnePiece, NoByteIsSkipped, UNCHANGED <<pipe, written, stream>>,
           \A s \in Streams : reader'[s] = reader[s]
                                 \/ (reader'[s] \in {"reading", "failed"} /\ reader[s] # "failed")
    PROVE  /\ CapturesAreOfOnePiece' /\ NoByteIsSkipped'
           /\ \A s : Complete(s)' = Complete(s)
BY DEF CapturesAreOfOnePiece, NoByteIsSkipped, Complete

\* What is said of the captured texts stays true while the streams stay.
LEMMA TextsStay ==
    ASSUME UNCHANGED stream
    PROVE  /\ \A s \in Streams : Valid(Complete(s))' <=> Valid(Complete(s))
           /\ \A s \in Streams : Retained(s)' = Retained(s)
           /\ Combined(Complete("stdout"), Complete("stderr"))'
                = Combined(Complete("stdout"), Complete("stderr"))
           /\ UNCHANGED check => \A s \in Streams : PassedIsWhole(s)' <=> PassedIsWhole(s)
<1>1. \A s : Complete(s)' = Complete(s)
  BY DEF Complete
<1>2. \A s \in Streams : Valid(Complete(s))' <=> Valid(Complete(s))
  BY <1>1 DEF Valid, Whole
<1>3. \A s \in Streams : Retained(s)' = Retained(s)
  BY DEF Retained, ValidUpTo, Whole
<1>4. Combined(Complete("stdout"), Complete("stderr"))'
        = Combined(Complete("stdout"), Complete("stderr"))
  BY DEF Combined, Complete
<1>5. UNCHANGED check => \A s \in Streams : PassedIsWhole(s)' <=> PassedIsWhole(s)
  BY <1>1 DEF PassedIsWhole, Whole
<1> QED
  BY <1>2, <1>3, <1>4, <1>5

\* What the tool writes is in the pipe.
LEMMA ToolWritesInv ==
    ASSUME IInv, NEW s \in Streams, ToolWrites(s)
    PROVE  IInv'
<1> USE DEF IInv
<1>1. script[s] \in Seq(Bytes) /\ script[s] # <<>> /\ UNCHANGED <<alive, readers, control>>
  BY DEF Types, ToolWrites
<1> DEFINE b == Head(script[s])
<1>2. b \in Bytes /\ Tail(script[s]) \in Seq(Bytes)
  BY <1>1, HeadTailProperties
<1>3. UNCHANGED <<reader, stream, files, main, check, failure, parsed, text>>
  BY <1>1 DEF readers, control
<1>4. /\ \A q : Complete(q)' = Complete(q)
      /\ CapturesAreOfOnePiece' /\ ReadersFollowMain' /\ ValidatorIsWhole' /\ ResultIsFounded'
  <2>1. (\A q : Complete(q)' = Complete(q)) /\ CapturesAreOfOnePiece'
    BY <1>3 DEF Complete, CapturesAreOfOnePiece
  <2>2. ReadersFollowMain'
    BY <1>3 DEF ReadersFollowMain
  <2>3. ValidatorIsWhole'
    BY <1>3, TextsStay DEF ValidatorIsWhole, Streams
  <2>4. ResultIsFounded'
    BY <1>3, TextsStay DEF ResultIsFounded
  <2> QED
    BY <2>1, <2>2, <2>3, <2>4
<1>5. script' \in [Streams -> Seq(Bytes)]
  BY <1>2 DEF Types, ToolWrites
<1>6. CASE UNCHANGED <<pipe, written>>
  BY <1>3, <1>4, <1>5, <1>6 DEF Types, NoByteIsSkipped
<1>7. CASE /\ ~Closed(s)
           /\ pipe' = [pipe EXCEPT ![s] = Append(@, b)]
           /\ written' = [written EXCEPT ![s] = Append(@, b)]
  <2>1. pipe[s] \in Seq(Bytes) /\ written[s] \in Seq(Bytes) /\ Complete(s) \in Seq(Bytes)
    BY CompleteIsText
  <2>2. Append(pipe[s], b) \in Seq(Bytes) /\ Append(written[s], b) \in Seq(Bytes)
    BY <1>2, <2>1, AppendProperties
  <2>3. Types'
    BY <1>3, <1>5, <1>7, <2>2 DEF Types
  <2>4. reader[s] # "failed" => Complete(s) \o Append(pipe[s], b) = Append(written[s], b)
    <3> SUFFICES ASSUME reader[s] # "failed"
                 PROVE  Complete(s) \o Append(pipe[s], b) = Append(written[s], b)
      OBVIOUS
    <3>1. Append(pipe[s], b) = pipe[s] \o <<b>> /\ Append(written[s], b) = written[s] \o <<b>>
      BY <1>2, <2>1, AppendIsConcat
    <3>2. <<b>> \in Seq(Bytes)
      BY <1>2
    <3>3. (Complete(s) \o pipe[s]) \o <<b>> = Complete(s) \o (pipe[s] \o <<b>>)
      BY <2>1, <3>2, TextsAssociate
    <3> QED
      BY <3>1, <3>3 DEF NoByteIsSkipped
  <2>5. pipe'[s] = Append(pipe[s], b) /\ written'[s] = Append(written[s], b)
    BY <1>7 DEF Types
  <2>6. \A q \in Streams : q # s => pipe'[q] = pipe[q] /\ written'[q] = written[q]
    BY <1>7 DEF Types
  <2>7. reader[s] # "done"
    BY <1>7 DEF Closed
  <2>8. NoByteIsSkipped'
    <3> SUFFICES ASSUME NEW q \in Streams
                 PROVE  /\ reader[q] # "failed" => Complete(q) \o pipe'[q] = written'[q]
                        /\ reader[q] = "done" => pipe'[q] = <<>>
      BY <1>3, <1>4 DEF NoByteIsSkipped, Complete
    <3>1. CASE q = s
      BY <2>4, <2>5, <2>7, <3>1
    <3>2. CASE q # s
      BY <2>6, <3>2 DEF NoByteIsSkipped
    <3> QED
      BY <3>1, <3>2
  <2> QED
    BY <1>4, <2>3, <2>8
<1> QED
  BY <1>6, <1>7 DEF ToolWrites

\* A chunk that is read goes from the pipe to what is captured.
LEMMA ReadChunkInv ==
    ASSUME IInv, NEW s \in Streams, ReadChunk(s)
    PROVE  IInv'
<1> USE DEF IInv
<1>1. PICK n \in 1 .. Len(pipe[s]) :
         /\ WithinLimit(stream[s], n)
         /\ pipe' = [pipe EXCEPT ![s] = SubSeq(@, n + 1, Len(@))]
         /\ stream' = [stream EXCEPT ![s] = Keep(stream[s], SubSeq(pipe[s], 1, n))]
         /\ files' = IF Keep(stream[s], SubSeq(pipe[s], 1, n)).spilled THEN files \cup {s} ELSE files
  BY DEF ReadChunk
<1>2. reader[s] = "reading" /\ UNCHANGED <<script, written, alive, reader, control>>
  BY DEF ReadChunk, Reads
<1>3. UNCHANGED <<script, written, reader, main, check, failure, parsed, text>>
  BY <1>2 DEF control
<1> DEFINE chunk == SubSeq(pipe[s], 1, n)
           rest == SubSeq(pipe[s], n + 1, Len(pipe[s]))
           kept == Keep(stream[s], chunk)
<1>4. /\ stream[s] \in Captured /\ pipe[s] \in Seq(Bytes) /\ Len(pipe[s]) \in Nat
      /\ Complete(s) = Taken(stream[s]) /\ Complete(s) \in Seq(Bytes)
  BY CompleteIsText, LenProperties
<1>5. /\ chunk \in Seq(Bytes) /\ Len(chunk) = n /\ rest \in Seq(Bytes)
      /\ chunk \o rest = pipe[s]
  <2>1. /\ chunk \in Seq(Bytes) /\ Len(chunk) = n
    BY <1>4, CutOut
  <2>2. rest \in Seq(Bytes)
    BY <1>4, CutOut
  <2>3. chunk \o rest = SubSeq(pipe[s], 1, Len(pipe[s]))
    BY <1>4, ConcatAdjacentSubSeq
  <2> QED
    BY <1>4, <2>1, <2>2, <2>3, SubSeqFull
<1>6. kept \in Captured /\ OfOnePiece(kept) /\ Taken(kept) = Complete(s) \o chunk
  <2> HIDE DEF chunk
  <2>1. WithinLimit(stream[s], Len(chunk)) /\ OfOnePiece(stream[s])
    BY <1>1, <1>5 DEF CapturesAreOfOnePiece
  <2> QED
    BY <1>4, <1>5, <2>1, KeepAdds
<1>7. /\ pipe'[s] = rest /\ stream'[s] = kept
      /\ \A q \in Streams : q # s => pipe'[q] = pipe[q] /\ stream'[q] = stream[q]
      /\ pipe' \in [Streams -> Seq(Bytes)] /\ stream' \in [Streams -> Captured]
  <2> HIDE DEF kept
  <2> QED
    BY <1>1, <1>5, <1>6 DEF Types, kept
<1> HIDE DEF chunk, rest, kept
<1>8. Types'
  BY <1>1, <1>3, <1>7 DEF Types
<1>9. CapturesAreOfOnePiece'
  BY <1>6, <1>7 DEF CapturesAreOfOnePiece
<1>10. NoByteIsSkipped'
  <2> SUFFICES ASSUME NEW q \in Streams
               PROVE  /\ reader[q] # "failed" => Taken(stream'[q]) \o pipe'[q] = written[q]
                      /\ reader[q] = "done" => pipe'[q] = <<>>
    BY <1>3 DEF NoByteIsSkipped, Complete, Taken
  <2>1. CASE q = s
    <3>1. (Complete(s) \o chunk) \o rest = Complete(s) \o (chunk \o rest)
      <4>1. Complete(s) \in Seq(Bytes) /\ chunk \in Seq(Bytes) /\ rest \in Seq(Bytes)
        BY <1>4, <1>5
      <4> QED
        BY <4>1, TextsAssociate
    <3>2. Complete(s) \o pipe[s] = written[s]
      BY <1>2 DEF NoByteIsSkipped
    <3> QED
      BY <1>2, <1>5, <1>6, <1>7, <2>1, <3>1, <3>2
  <2>2. CASE q # s
    BY <1>7, <2>2 DEF NoByteIsSkipped, Complete, Taken
  <2> QED
    BY <2>1, <2>2
<1>11. main \notin Using \cup Ending
  BY <1>2 DEF ReadersFollowMain
<1>12. ReadersFollowMain' /\ ValidatorIsWhole' /\ ResultIsFounded'
  BY <1>3, <1>11 DEF ReadersFollowMain, ValidatorIsWhole, ResultIsFounded, Using, Ending
<1> QED
  BY <1>8, <1>9, <1>10, <1>12

\* A reader that fails, or comes to the end of its stream.
LEMMA ReaderEndsInv ==
    ASSUME IInv, NEW s \in Streams, ReadFails(s) \/ EndOfStream(s)
    PROVE  IInv'
<1> USE DEF IInv
<1>1. /\ reader[s] = "reading"
      /\ \E r \in {"failed", "done"} :
            reader' = [reader EXCEPT ![s] = r] /\ (r = "done" => pipe[s] = <<>>)
      /\ files' \subseteq files
      /\ UNCHANGED <<script, pipe, written, stream, main, check, failure, parsed, text>>
  BY DEF ReadFails, EndOfStream, ReaderFails, Reads, tool, control
<1>2. main \notin Using \cup Ending
  BY <1>1 DEF ReadersFollowMain
<1>3. Types' /\ CapturesAreOfOnePiece'
  BY <1>1 DEF Types, CapturesAreOfOnePiece
<1>4. NoByteIsSkipped'
  BY <1>1 DEF NoByteIsSkipped, Complete, Types
<1>5. ReadersFollowMain'
  BY <1>1, <1>2 DEF ReadersFollowMain, Using, Ending, Types, Streams
<1>6. ValidatorIsWhole' /\ ResultIsFounded'
  BY <1>1, <1>2 DEF ValidatorIsWhole, ResultIsFounded, Using, Ending
<1> QED
  BY <1>3, <1>4, <1>5, <1>6

\* The tool is started, or the run ends.
LEMMA SpawnInv ==
    ASSUME IInv, Spawn
    PROVE  IInv'
<1> USE DEF IInv
<1>1. /\ main = "spawn" /\ UNCHANGED <<script, pipe, written, reader, stream, check, parsed, text>>
      /\ \/ main' = "stdout" /\ UNCHANGED <<files, failure>>
         \/ main' = "done" /\ failure' = "spawn" /\ files' = {}
  BY DEF Spawn, Return
<1>2. Types'
  BY <1>1 DEF Types, Capturing, Ending
<1>3. CapturesAreOfOnePiece' /\ NoByteIsSkipped'
  BY <1>1, CapturesStay
<1>4. failure # "utf8"
  BY <1>1 DEF ResultIsFounded, Ending
<1>5. ReadersFollowMain'
  BY <1>1 DEF ReadersFollowMain, Using, Ending
<1>6. ValidatorIsWhole'
  BY <1>1 DEF ValidatorIsWhole, Capturing
<1>7. ResultIsFounded'
  BY <1>1, <1>4 DEF ResultIsFounded, Ending
<1> QED
  BY <1>2, <1>3, <1>5, <1>6, <1>7

\* A reader is started, or it is failed from the beginning.
LEMMA StartReadersInv ==
    ASSUME IInv, StartReaders
    PROVE  IInv'
<1> USE DEF IInv
<1>1. PICK s \in Streams :
         /\ main = s
         /\ reader' \in {[reader EXCEPT ![s] = "reading"], [reader EXCEPT ![s] = "failed"]}
         /\ failure' \in {failure, "reader"}
         /\ \/ main' = "stderr" /\ s = "stdout"
            \/ main' = "drop" /\ s = "stdout" /\ reader'[s] = "failed" /\ failure' = "reader"
            \/ main' \in {"wait", "join"} /\ s = "stderr"
         /\ UNCHANGED <<script, pipe, written, stream, files, check, parsed, text>>
  BY DEF StartReaders, StartReader, Starts, Streams, Types
<1>2. /\ reader[s] = "none" /\ reader'[s] \in {"reading", "failed"}
      /\ \A q \in Streams : q # s => reader'[q] = reader[q]
      /\ failure # "utf8"
  BY <1>1 DEF ReadersFollowMain, ResultIsFounded, Ending, Streams, Types
<1>3. Types'
  BY <1>1 DEF Types, Capturing, Ending
<1>4. CapturesAreOfOnePiece' /\ NoByteIsSkipped'
  BY <1>1, <1>2, CapturesStay
<1>5. ReadersFollowMain'
  BY <1>1, <1>2 DEF ReadersFollowMain, Using, Ending, Streams
<1>6. ValidatorIsWhole' /\ ResultIsFounded'
  BY <1>1, <1>2 DEF ValidatorIsWhole, ResultIsFounded, Ending, Capturing, Streams
<1> QED
  BY <1>3, <1>4, <1>5, <1>6

\* The wait for the child changes neither readers nor captures.
LEMMA WaitForChildInv ==
    ASSUME IInv, WaitForChild
    PROVE  IInv'
<1> USE DEF IInv
<1>1. /\ main = "wait" /\ main' = "join" /\ failure' \in {failure, "wait"}
      /\ UNCHANGED <<script, pipe, written, reader, stream, files, check, parsed, text>>
  BY DEF WaitForChild, readers
<1>2. Types' /\ CapturesAreOfOnePiece' /\ NoByteIsSkipped'
  BY <1>1, CapturesStay DEF Types, Capturing
<1>3. failure # "utf8"
  BY <1>1 DEF ResultIsFounded, Ending
<1>4. ReadersFollowMain' /\ ValidatorIsWhole' /\ ResultIsFounded'
  BY <1>1, <1>3 DEF ReadersFollowMain, ValidatorIsWhole, ResultIsFounded, Using, Ending, Capturing
<1> QED
  BY <1>2, <1>4

\* After the join the readers are done, or the run has failed.
LEMMA JoinReadersInv ==
    ASSUME IInv, JoinReaders
    PROVE  IInv'
<1> USE DEF IInv
<1>1. /\ main = "join" /\ \A s \in Streams : reader[s] # "reading"
      /\ UNCHANGED <<script, pipe, written, reader, stream, files, check, parsed, text>>
      /\ \/ /\ main' = "validate stdout" /\ failure' = failure /\ failure = "none"
            /\ \A s \in Streams : reader[s] = "done"
         \/ main' = "drop" /\ failure' # "none" /\ failure' \in {failure, "stream"}
  BY DEF JoinReaders, Joined, readers, tool
<1>2. Types' /\ CapturesAreOfOnePiece' /\ NoByteIsSkipped' /\ \A s : Complete(s)' = Complete(s)
  BY <1>1, CapturesStay DEF Types, Using, Ending
<1>3. failure # "utf8" /\ check = [passed |-> 0, held |-> 0]
  BY <1>1 DEF ResultIsFounded, ValidatorIsWhole, Ending, Capturing
<1>4. PassedIsWhole("stdout")
  <2>1. Complete("stdout") \in Seq(Bytes)
    BY CompleteIsText DEF Streams
  <2>2. 0 \in Whole(Complete("stdout")) /\ Len(Complete("stdout")) \in Nat
    BY <2>1, NothingIsWhole
  <2> QED
    BY <1>3, <2>2 DEF PassedIsWhole
<1>5. ReadersFollowMain'
  BY <1>1 DEF ReadersFollowMain, Using, Ending
<1>6. ValidatorIsWhole'
  BY <1>1, <1>2, <1>4 DEF ValidatorIsWhole, PassedIsWhole, Capturing
<1>7. ResultIsFounded'
  BY <1>1, <1>3 DEF ResultIsFounded, Ending
<1> QED
  BY <1>2, <1>5, <1>6, <1>7

\* A read of the validator, in a text t where it has passed p bytes and holds back h.
ValidatorReads(t, p, h, next) ==
    \E e \in p .. Len(t) :
       LET seen == Cut(t, p, e)
           good == ValidUpTo(seen)
       IN  /\ p + h <= e /\ (e = p + h => e = Len(t))
           /\ \/ /\ e = p + h /\ h = 0
                 /\ main' = next /\ check' = [passed |-> 0, held |-> 0]
                 /\ UNCHANGED failure
              \/ /\ good = Len(seen) \/ HeldBack(seen)
                 /\ check' = [passed |-> p + good, held |-> Len(seen) - good]
                 /\ UNCHANGED <<main, failure>>
              \/ /\ (e = p + h /\ h > 0) \/ (good < Len(seen) /\ ~HeldBack(seen))
                 /\ main' = "drop" /\ failure' = "utf8"
                 /\ UNCHANGED check

\* The validator finds the text valid, or goes on to a boundary, or finds it malformed.
LEMMA ReadOfValidator ==
    ASSUME NEW t \in Seq(Bytes), NEW p \in Nat, NEW h \in 0 .. 1, NEW next, p \in Whole(t),
           h = 1 => t[p + 1] = "L", ValidatorReads(t, p, h, next)
    PROVE  \/ /\ Valid(t)
              /\ main' = next /\ check' = [passed |-> 0, held |-> 0]
              /\ UNCHANGED failure
           \/ /\ \E q \in Whole(t), r \in {0, 1} :
                    /\ check' = [passed |-> q, held |-> r]
                    /\ q + r <= Len(t)
                    /\ r = 1 => t[q + 1] = "L"
              /\ UNCHANGED <<main, failure>>
           \/ /\ ~Valid(t)
              /\ main' = "drop" /\ failure' = "utf8"
              /\ UNCHANGED check
<1>1. PICK e \in p .. Len(t) :
         LET seen == Cut(t, p, e)
             good == ValidUpTo(seen)
         IN  /\ p + h <= e /\ (e = p + h => e = Len(t))
             /\ \/ /\ e = p + h /\ h = 0
                   /\ main' = next /\ check' = [passed |-> 0, held |-> 0]
                   /\ UNCHANGED failure
                \/ /\ good = Len(seen) \/ HeldBack(seen)
                   /\ check' = [passed |-> p + good, held |-> Len(seen) - good]
                   /\ UNCHANGED <<main, failure>>
                \/ /\ (e = p + h /\ h > 0) \/ (good < Len(seen) /\ ~HeldBack(seen))
                   /\ main' = "drop" /\ failure' = "utf8"
                   /\ UNCHANGED check
  BY DEF ValidatorReads
<1> DEFINE seen == Cut(t, p, e)
           good == ValidUpTo(seen)
<1>2. /\ e = p + h /\ h = 0 => Valid(t)
      /\ e = p + h /\ h > 0 => ~Valid(t)
      /\ good < Len(seen) /\ ~HeldBack(seen) => ~Valid(t)
  <2>1. p + h <= e /\ (e = p + h => e = Len(t))
    BY <1>1
  <2> QED
    BY <2>1, ValidatorStep
<1>6. good = Len(seen) \/ HeldBack(seen) =>
         /\ p + good \in Whole(t) /\ Len(seen) - good \in {0, 1}
         /\ p + good + (Len(seen) - good) <= Len(t)
         /\ Len(seen) - good = 1 => t[p + good + 1] = "L"
  BY ValidatorMoves
<1>3. CASE /\ e = p + h /\ h = 0
           /\ main' = next /\ check' = [passed |-> 0, held |-> 0]
           /\ UNCHANGED failure
  BY <1>2, <1>3
<1>4. CASE /\ good = Len(seen) \/ HeldBack(seen)
           /\ check' = [passed |-> p + good, held |-> Len(seen) - good]
           /\ UNCHANGED <<main, failure>>
  <2> HIDE DEF good, seen
  <2> QED
    BY <1>6, <1>4
<1>5. CASE /\ (e = p + h /\ h > 0) \/ (good < Len(seen) /\ ~HeldBack(seen))
           /\ main' = "drop" /\ failure' = "utf8"
           /\ UNCHANGED check
  <2> HIDE DEF good, seen
  <2> QED
    BY <1>2, <1>5
<1> QED
  BY <1>1, <1>3, <1>4, <1>5

\* Where the validator of a stream is, and what comes after it.
Here(s) == IF s = "stdout" THEN "validate stdout" ELSE "validate stderr"
After(s) == IF s = "stdout" THEN "validate stderr" ELSE "parse"

\* The validator of either stream keeps the invariant.
LEMMA ValidateInv ==
    ASSUME IInv, NEW s \in Streams, Validate(s, Here(s), After(s))
    PROVE  IInv'
<1> USE DEF IInv
<1>1. main = Here(s) /\ PassedIsWhole(s) /\ failure = "none" /\ reader[s] = "done"
  BY DEF Validate, ValidatorIsWhole, ReadersFollowMain, Using, Here, Streams
<1>2. UNCHANGED <<script, pipe, written, reader, stream, files, parsed, text>>
  BY DEF Validate, tool, readers
<1>3. /\ CapturesAreOfOnePiece' /\ NoByteIsSkipped'
      /\ \A q : Complete(q)' = Complete(q)
  BY <1>2, CapturesStay
<1> DEFINE t == Complete(s)
<1>4. t \in Seq(Bytes) /\ Len(t) \in Nat
  BY CompleteIsText
<1>5. PICK p \in Nat, h \in 0 .. 1 :
         /\ p = check.passed /\ h = check.held
         /\ p \in Whole(t) /\ (h = 1 => t[p + 1] = "L")
  BY <1>1, <1>4 DEF PassedIsWhole, Whole
<1>6. ValidatorReads(t, p, h, After(s))
  <2>1. p \in Nat /\ Buffer - h \in Nat
    <3>1. Buffer \in Nat /\ Buffer >= 2
      BY CaptureAssumption
    <3> QED
      BY <1>4, <3>1 DEF Whole
  <2>2. PICK n \in 0 .. Buffer - h :
          LET seen == Cut(t, p, p + h + n)
              good == ValidUpTo(seen)
          IN  /\ p + h + n <= Len(t)
              /\ n = 0 => p + h + n = Len(t)
              /\ \/ /\ n = 0 /\ h = 0
                    /\ main' = After(s) /\ check' = [passed |-> 0, held |-> 0]
                    /\ UNCHANGED failure
                 \/ /\ good = Len(seen) \/ HeldBack(seen)
                    /\ check' = [passed |-> p + good, held |-> Len(seen) - good]
                    /\ UNCHANGED <<main, failure>>
                 \/ /\ (n = 0 /\ h > 0) \/ (good < Len(seen) /\ ~HeldBack(seen))
                    /\ main' = "drop" /\ failure' = "utf8"
                    /\ UNCHANGED check
    BY <1>5 DEF Validate, Cut
  <2> DEFINE e == p + h + n
  <2>3. /\ e \in p .. Len(t) /\ p + h <= e
        /\ e = p + h <=> n = 0
    BY <1>4, <2>1, <2>2
  <2>4. n = 0 => e = Len(t)
    BY <2>2
  <2> HIDE DEF t
  <2> QED
    BY <2>2, <2>3, <2>4 DEF ValidatorReads
<1> HIDE DEF t
<1>7. CASE Valid(t) /\ main' = After(s) /\ check' = [passed |-> 0, held |-> 0] /\ UNCHANGED failure
  <2>1. s = "stdout" => PassedIsWhole("stderr")'
    <3>1. Complete("stderr") \in Seq(Bytes)
      BY CompleteIsText DEF Streams
    <3>2. 0 \in Whole(Complete("stderr")) /\ Len(Complete("stderr")) \in Nat
      BY <3>1, NothingIsWhole
    <3>3. Complete("stderr")' = Complete("stderr")
      BY <1>3
    <3> QED
      BY <1>7, <3>2, <3>3 DEF PassedIsWhole
  <2>2. Types' /\ ReadersFollowMain'
    <3>1. Types'
      BY <1>2, <1>7 DEF Types, Using, After
    <3> QED
      BY <1>1, <1>2, <1>7, <3>1 DEF ReadersFollowMain, Using, Ending, Here, After
  <2>3. ValidatorIsWhole'
    <3>1. \A q \in Streams : Valid(Complete(q))' = Valid(Complete(q))
      BY <1>2 DEF Valid, Complete, Whole
    <3>2. CASE s = "stdout"
      BY <1>7, <2>1, <3>1, <3>2 DEF ValidatorIsWhole, Capturing, Streams, After, t
    <3>3. CASE s = "stderr"
      <4>1. Valid(Complete("stdout")) /\ main' = "parse"
        BY <1>1, <1>7, <3>3 DEF ValidatorIsWhole, Here, After
      <4> QED
        BY <1>7, <3>1, <3>3, <4>1 DEF ValidatorIsWhole, Capturing, Streams, After, t
    <3> QED
      BY <3>2, <3>3 DEF Streams
  <2>4. ResultIsFounded'
    BY <1>1, <1>7 DEF ResultIsFounded, Ending, Here, After
  <2> QED
    BY <1>3, <2>2, <2>3, <2>4
<1>8. ASSUME NEW q \in Whole(t), NEW r \in {0, 1}, check' = [passed |-> q, held |-> r],
             q + r <= Len(t), r = 1 => t[q + 1] = "L", UNCHANGED <<main, failure>>
      PROVE  IInv'
  <2>1. PassedIsWhole(s)'
    <3>1. Complete(s)' = t
      BY <1>3 DEF t
    <3> QED
      BY <1>8, <3>1 DEF PassedIsWhole
  <2>2. Types' /\ ReadersFollowMain'
    <3>1. q \in Nat /\ r \in Nat
      BY <1>4 DEF Whole
    <3>2. Types'
      BY <1>2, <1>8, <3>1 DEF Types
    <3> QED
      BY <1>2, <1>8, <3>2 DEF ReadersFollowMain
  <2>3. ValidatorIsWhole'
    <3>1. \A u \in Streams : Valid(Complete(u))' = Valid(Complete(u))
      BY <1>2 DEF Valid, Complete, Whole
    <3> QED
      BY <1>1, <1>8, <2>1, <3>1 DEF ValidatorIsWhole, Capturing, Streams, Here
  <2>4. ResultIsFounded'
    BY <1>1, <1>8 DEF ResultIsFounded, Ending, Here
  <2> QED
    BY <1>3, <2>1, <2>2, <2>3, <2>4
<1>9. CASE ~Valid(t) /\ main' = "drop" /\ failure' = "utf8" /\ UNCHANGED check
  <2>1. Types'
    BY <1>2, <1>9 DEF Types, Ending
  <2>2. ReadersFollowMain'
    BY <1>1, <1>2, <1>9 DEF ReadersFollowMain, Using, Ending, Here
  <2>3. ValidatorIsWhole'
    BY <1>9 DEF ValidatorIsWhole, Capturing
  <2>4. ResultIsFounded'
    <3>1. ~Valid(Complete(s))' /\ reader'[s] = "done"
      BY <1>1, <1>2, <1>9 DEF Valid, Complete, Whole, t
    <3> QED
      BY <1>9, <3>1 DEF ResultIsFounded, Ending
  <2> QED
    BY <1>3, <2>1, <2>2, <2>3, <2>4
<1> QED
  BY <1>4, <1>5, <1>6, <1>7, <1>8, <1>9, ReadOfValidator

\* The parser is given valid texts.
LEMMA ParseInv ==
    ASSUME IInv, Parse
    PROVE  IInv'
<1> USE DEF IInv
<1>1. /\ main = "parse" /\ main' = "drop"
      /\ parsed' = Combined(Complete("stdout"), Complete("stderr"))
      /\ text' = [s \in Streams |-> Retained(s)]
      /\ UNCHANGED <<script, pipe, written, reader, stream, files, check, failure>>
  BY DEF Parse, readers, tool
<1>2. /\ failure = "none" /\ \A s \in Streams : reader[s] = "done"
      /\ \A s \in Streams : Valid(Complete(s))
  BY <1>1 DEF ReadersFollowMain, ValidatorIsWhole, Using
<1>3. Types' /\ CapturesAreOfOnePiece' /\ NoByteIsSkipped'
  BY <1>1, CapturesStay DEF Types, Ending
<1>4. ReadersFollowMain' /\ ValidatorIsWhole'
  BY <1>1, <1>2 DEF ReadersFollowMain, ValidatorIsWhole, Using, Ending, Capturing
<1>5. ResultIsFounded'
  <2>1. \A s \in Streams : /\ reader'[s] = "done" /\ Valid(Complete(s))'
                           /\ text'[s] = Retained(s)'
    BY <1>1, <1>2, TextsStay
  <2>2. parsed' = Combined(Complete("stdout"), Complete("stderr"))'
    BY <1>1, TextsStay
  <2> QED
    BY <1>1, <1>2, <2>1, <2>2 DEF ResultIsFounded
<1> QED
  BY <1>3, <1>4, <1>5

\* A file that cannot be reopened fails the run.
LEMMA ReopenFailsInv ==
    ASSUME IInv, ReopenFails
    PROVE  IInv'
<1> USE DEF IInv
<1>1. /\ main \in Using /\ main' = "drop" /\ failure' = "reopen"
      /\ UNCHANGED <<script, pipe, written, reader, stream, files, check, parsed, text>>
  BY DEF ReopenFails, readers, tool, Using
<1>2. Types' /\ CapturesAreOfOnePiece' /\ NoByteIsSkipped'
  BY <1>1, CapturesStay DEF Types, Ending
<1>3. ReadersFollowMain'
  BY <1>1 DEF ReadersFollowMain, Using, Ending
<1>4. ValidatorIsWhole'
  BY <1>1 DEF ValidatorIsWhole, Capturing
<1>5. ResultIsFounded'
  BY <1>1 DEF ResultIsFounded
<1> QED
  BY <1>2, <1>3, <1>4, <1>5

\* The captures are dropped and the result stays.
LEMMA DropInv ==
    ASSUME IInv, Drop
    PROVE  IInv'
<1> USE DEF IInv
<1>1. /\ main = "drop" /\ main' = "done" /\ failure' = failure /\ files' = {}
      /\ UNCHANGED <<script, pipe, written, reader, stream, check, parsed, text>>
  BY DEF Drop, Return, tool
<1>2. Types' /\ CapturesAreOfOnePiece' /\ NoByteIsSkipped'
  BY <1>1, CapturesStay DEF Types, Ending
<1>3. ReadersFollowMain' /\ ValidatorIsWhole'
  BY <1>1 DEF ReadersFollowMain, ValidatorIsWhole, Using, Ending, Capturing
<1>4. ResultIsFounded'
  BY <1>1, TextsStay DEF ResultIsFounded, Ending
<1> QED
  BY <1>2, <1>3, <1>4

\* A process that ends, and a step of nobody, change nothing of this.
LEMMA NothingHappensInv ==
    ASSUME IInv, UNCHANGED <<script, pipe, written, readers, control>>
    PROVE  IInv'
<1> USE DEF IInv
<1>1. UNCHANGED <<script, pipe, written, reader, stream, files, main, check, failure, parsed, text>>
  BY DEF readers, control
<1>2. Types' /\ CapturesAreOfOnePiece' /\ NoByteIsSkipped'
  BY <1>1, CapturesStay DEF Types
<1>3. ReadersFollowMain'
  BY <1>1 DEF ReadersFollowMain
<1>4. ValidatorIsWhole'
  BY <1>1, TextsStay DEF ValidatorIsWhole, Streams
<1>5. ResultIsFounded'
  BY <1>1, TextsStay DEF ResultIsFounded
<1> QED
  BY <1>2, <1>3, <1>4, <1>5

\* Every step keeps the invariant.
LEMMA NextInv ==
    ASSUME IInv, [Next]_vars
    PROVE  IInv'
<1>1. ASSUME MainStep PROVE IInv'
  <2>1. ASSUME ValidateStreams PROVE IInv'
    <3>1. \/ Validate("stdout", Here("stdout"), After("stdout"))
          \/ Validate("stderr", Here("stderr"), After("stderr"))
      BY <2>1 DEF ValidateStreams, Here, After
    <3> QED
      BY <3>1, ValidateInv DEF Streams
  <2> QED
    BY <1>1, <2>1, SpawnInv, StartReadersInv, WaitForChildInv, JoinReadersInv, ParseInv,
       ReopenFailsInv, DropInv DEF MainStep
<1>2. ASSUME NEW s \in Streams, ReaderStep(s) \/ ToolWrites(s) PROVE IInv'
  BY <1>2, ReadChunkInv, ReaderEndsInv, ToolWritesInv DEF ReaderStep
<1>3. ASSUME NEW p \in alive, ProcessExits(p) PROVE IInv'
  BY <1>3, NothingHappensInv DEF ProcessExits
<1>4. CASE UNCHANGED vars
  BY <1>4, NothingHappensInv DEF vars, tool
<1> QED
  BY <1>1, <1>2, <1>3, <1>4 DEF Next

\* Whatever the tool writes and whichever thread runs when, what is captured is of one
\* piece, nothing of it is skipped, and the validator and the result are founded on it.
THEOREM CaptureIsWhole == Spec => []IInv
<1>1. Init => IInv
  BY InitInv
<1>2. IInv /\ [Next]_vars => IInv'
  BY NextInv
<1> QED
  BY <1>1, <1>2, PTL DEF Spec

-----------------------------------------------------------------------------
(***************************************************************************)
(* What a run returns.                                                     *)
(***************************************************************************)

\* What is in memory agrees with what was taken, as far as it goes; it stops short
\* only where the retention limit is reached.
LEMMA RetainedIsPrefix ==
    ASSUME NEW c \in Captured, OfOnePiece(c)
    PROVE  /\ c.retained \in Seq(Bytes) /\ Taken(c) \in Seq(Bytes)
           /\ Len(c.retained) \in 0 .. Len(Taken(c))
           /\ \A i \in 1 .. Len(c.retained) : c.retained[i] = Taken(c)[i]
           /\ Len(c.retained) = Len(Taken(c)) \/ Len(c.retained) = Retention
<1>1. c.retained \in Seq(Bytes) /\ c.spill \in Seq(Bytes) /\ c.spilled \in BOOLEAN
  BY DEF Captured
<1>2. Len(c.retained) \in Nat /\ Len(c.spill) \in Nat
  BY <1>1, LenProperties
<1>3. CASE ~c.spilled
  BY <1>1, <1>2, <1>3 DEF Taken
<1>4. CASE c.spilled
  <2>1. InMemory \in 0 .. Len(c.spill) /\ InMemory = Retention
    BY <1>2, <1>4, InMemoryIsBound DEF OfOnePiece, Taken
  <2>2. c.retained = SubSeq(c.spill, 1, InMemory)
    BY <1>4 DEF OfOnePiece
  <2>3. Len(c.retained) = InMemory /\ \A i \in 1 .. InMemory : c.retained[i] = c.spill[i]
    BY <1>1, <2>1, <2>2, CutOut
  <2> HIDE <2>2
  <2> QED
    BY <1>1, <1>2, <1>4, <2>1, <2>3 DEF Taken
<1> QED
  BY <1>1, <1>3, <1>4

\* Of a valid text, what is shown is a prefix of whole characters, short of what is in
\* memory by less than one of them.
LEMMA ShownIsPrefix ==
    ASSUME NEW t \in Seq(Bytes), Valid(t), NEW r \in Seq(Bytes), Len(r) \in 0 .. Len(t),
           \A i \in 1 .. Len(r) : r[i] = t[i]
    PROVE  LET shown == SubSeq(r, 1, ValidUpTo(r))
           IN  /\ Prefix(shown, t) /\ Valid(shown)
               /\ Len(shown) \in Nat /\ Len(shown) + 1 >= Len(r)
<1> DEFINE v == ValidUpTo(r)
           shown == SubSeq(r, 1, v)
<1>1. Len(t) \in Nat /\ Len(r) \in Nat
  BY LenProperties
<1>2. v \in Whole(r) /\ v \in 0 .. Len(r)
  BY ValidUpToIsLargest
<1> HIDE DEF v
<1>3. shown \in Seq(Bytes) /\ Len(shown) = v /\ Valid(shown)
  BY <1>2, WholePartIsValid
<1>4. \A i \in 1 .. v : shown[i] = r[i]
  BY <1>1, <1>2, CutOut
<1>5. SubSeq(t, 1, v) \in Seq(Bytes) /\ Len(SubSeq(t, 1, v)) = v
      /\ \A i \in 1 .. v : SubSeq(t, 1, v)[i] = t[i]
  BY <1>1, <1>2, CutOut
<1>6. shown = SubSeq(t, 1, v)
  <2> DEFINE part == SubSeq(t, 1, v)
  <2>1. \A i \in 1 .. v : shown[i] = part[i]
    BY <1>1, <1>2, <1>4, <1>5
  <2>2. Len(shown) = Len(part) /\ shown \in Seq(Bytes) /\ part \in Seq(Bytes)
    BY <1>3, <1>5
  <2> HIDE DEF shown, part
  <2>3. shown = part
    BY <1>3, <2>1, <2>2, SeqEqual
  <2> QED
    BY <2>3 DEF part
<1>7. v + 1 >= Len(r)
  <2>1. r = Cut(t, 0, Len(r))
    <3> DEFINE cut == SubSeq(t, 1, Len(r))
    <3>1. cut \in Seq(Bytes) /\ Len(cut) = Len(r) /\ \A i \in 1 .. Len(r) : cut[i] = t[i]
      BY <1>1, CutOut
    <3>2. cut = Cut(t, 0, Len(r))
      BY DEF Cut
    <3> HIDE DEF cut
    <3>3. \A i \in 1 .. Len(cut) : cut[i] = r[i]
      BY <3>1
    <3>4. cut = r
      BY <3>1, <3>3, SeqEqual
    <3> QED
      BY <3>2, <3>4
  <2>2. 0 \in Whole(t)
    BY NothingIsWhole
  <2>3. ValidUpTo(r) = Len(r) \/ HeldBack(r)
    <3>1. Len(r) \in 0 .. Len(t)
      OBVIOUS
    <3> QED
      BY <2>1, <2>2, <3>1, CutOfValid
  <2> QED
    BY <1>1, <1>2, <2>3 DEF HeldBack, Unfinished, v
<1> HIDE DEF shown
<1>8. Prefix(shown, t)
  <2>1. v <= Len(t)
    BY <1>1, <1>2
  <2> QED
    BY <1>3, <1>6, <2>1 DEF Prefix
<1> QED
  BY <1>2, <1>3, <1>7, <1>8 DEF shown, v

\* Two texts are parsed as one, with a line of its own for every line of either.
LEMMA LinesStayApart ==
    ASSUME NEW out \in Seq(Bytes), NEW err \in Seq(Bytes)
    PROVE  \E gap \in {<<>>, <<"n">>} :
              /\ Combined(out, err) = out \o gap \o err
              /\ LET first == out \o gap
                 IN  first = <<>> \/ err = <<>> \/ first[Len(first)] = "n"
<1>1. CASE out # <<>> /\ err # <<>> /\ out[Len(out)] # "n"
  <2> DEFINE first == out \o <<"n">>
  <2>1. Combined(out, err) = out \o <<"n">> \o err
    BY <1>1 DEF Combined
  <2>2. first[Len(first)] = "n"
    <3>1. first = Append(out, "n") /\ "n" \in Bytes
      BY AppendIsConcat DEF Bytes
    <3> HIDE DEF first
    <3> QED
      BY <3>1, AppendProperties
  <2> HIDE DEF first
  <2>3. first = <<>> \/ err = <<>> \/ first[Len(first)] = "n"
    BY <2>2
  <2> QED
    BY <2>1, <2>3 DEF first
<1>2. CASE ~(out # <<>> /\ err # <<>> /\ out[Len(out)] # "n")
  <2>1. out \o <<>> = out
    BY ConcatEmptySeq
  <2>2. Combined(out, err) = out \o err
    BY <1>2 DEF Combined
  <2>3. out \o <<>> \o err = out \o err
    BY <2>1
  <2> QED
    BY <1>2, <2>1, <2>2, <2>3
<1> QED
  BY <1>1, <1>2

\* What a reader that is done has is all that was written.
LEMMA DoneHasAll ==
    ASSUME IInv, NEW s \in Streams, reader[s] = "done"
    PROVE  /\ Complete(s) = written[s] /\ Complete(s) = Taken(stream[s])
           /\ stream[s] \in Captured /\ OfOnePiece(stream[s]) /\ Complete(s) \in Seq(Bytes)
<1>1. Complete(s) \o pipe[s] = written[s] /\ pipe[s] = <<>>
  BY DEF IInv, NoByteIsSkipped
<1>2. Complete(s) \in Seq(Bytes) /\ Complete(s) = Taken(stream[s]) /\ stream[s] \in Captured
  BY CompleteIsText DEF IInv, Complete, Taken
<1>3. Complete(s) \o <<>> = Complete(s)
  BY <1>2, ConcatEmptySeq
<1> QED
  BY <1>1, <1>2, <1>3 DEF IInv, CapturesAreOfOnePiece

\* A digest is built from all that was written, and a text refused only when it is
\* malformed.
LEMMA NothingIsLostNow ==
    ASSUME IInv
    PROVE  NothingIsLost
<1> SUFFICES ASSUME main = "done" PROVE NothingIsLost
  BY DEF NothingIsLost
<1>1. ASSUME failure = "none", NEW s \in Streams
      PROVE  /\ Valid(written[s]) /\ Len(written[s]) <= Limit
             /\ stream[s].total = Len(written[s])
             /\ Prefix(text[s], written[s]) /\ Valid(text[s])
             /\ Len(text[s]) + 1 >= Len(written[s]) \/ Len(text[s]) + 1 >= Retention
  <2> DEFINE c == stream[s]
  <2>1. reader[s] = "done" /\ Valid(Complete(s)) /\ text[s] = Retained(s)
    BY <1>1 DEF IInv, ResultIsFounded, Ending
  <2>2. /\ Complete(s) = written[s] /\ Taken(c) = written[s] /\ written[s] \in Seq(Bytes)
        /\ c \in Captured /\ OfOnePiece(c)
    BY <2>1, DoneHasAll
  <2>3. /\ c.retained \in Seq(Bytes) /\ Len(c.retained) \in 0 .. Len(written[s])
        /\ \A i \in 1 .. Len(c.retained) : c.retained[i] = written[s][i]
        /\ Len(c.retained) = Len(written[s]) \/ Len(c.retained) = Retention
    BY <2>2, RetainedIsPrefix
  <2>4. text[s] = SubSeq(c.retained, 1, ValidUpTo(c.retained))
    BY <2>1 DEF Retained
  <2>5. Valid(written[s])
    BY <2>1, <2>2
  <2>6. c.total = Len(written[s]) /\ Len(written[s]) <= Limit
    BY <2>2 DEF OfOnePiece
  <2> HIDE DEF c
  <2>7. Prefix(text[s], written[s]) /\ Valid(text[s]) /\ Len(text[s]) + 1 >= Len(c.retained)
    BY <2>2, <2>3, <2>4, <2>5, ShownIsPrefix
  <2> QED
    BY <2>3, <2>5, <2>6, <2>7 DEF c
<1>2. ASSUME failure = "none"
      PROVE  \E gap \in {<<>>, <<"n">>} :
                /\ parsed = written["stdout"] \o gap \o written["stderr"]
                /\ LET out == written["stdout"] \o gap
                   IN  out = <<>> \/ written["stderr"] = <<>> \/ out[Len(out)] = "n"
  <2>1. /\ parsed = Combined(Complete("stdout"), Complete("stderr"))
        /\ \A s \in Streams : reader[s] = "done"
    BY <1>2 DEF IInv, ResultIsFounded, Ending
  <2>2. /\ Complete("stdout") = written["stdout"] /\ written["stdout"] \in Seq(Bytes)
        /\ Complete("stderr") = written["stderr"] /\ written["stderr"] \in Seq(Bytes)
    BY <2>1, DoneHasAll DEF Streams
  <2>3. parsed = Combined(written["stdout"], written["stderr"])
    BY <2>1, <2>2
  <2> QED
    BY <2>2, <2>3, LinesStayApart
<1>3. failure = "utf8" => \E s \in Streams : ~Valid(written[s])
  <2> SUFFICES ASSUME failure = "utf8" PROVE \E s \in Streams : ~Valid(written[s])
    OBVIOUS
  <2>1. PICK s \in Streams : reader[s] = "done" /\ ~Valid(Complete(s))
    BY DEF IInv, ResultIsFounded
  <2>2. Complete(s) = written[s]
    BY <2>1, DoneHasAll
  <2> QED
    BY <2>1, <2>2
<1> QED
  BY <1>1, <1>2, <1>3 DEF NothingIsLost

\* A run holds no more than its limits, and leaves no thread and no file.
LEMMA NothingIsLeftNow ==
    ASSUME IInv
    PROVE  NothingIsLeft
<1>1. ASSUME NEW s \in Streams
      PROVE  Len(stream[s].retained) <= Retention /\ Len(stream[s].spill) <= Limit
  <2> DEFINE c == stream[s]
  <2>1. c \in Captured /\ OfOnePiece(c)
    BY DEF IInv, Types, CapturesAreOfOnePiece
  <2> HIDE DEF c
  <2>2. Len(c.retained) \in Nat /\ Len(c.spill) \in Nat /\ c.spilled \in BOOLEAN
    BY <2>1, LenProperties DEF Captured
  <2>3. Len(c.retained) <= Retention
    BY <2>1, <2>2, InMemoryIsBound DEF OfOnePiece
  <2>4. Len(c.spill) <= Limit
    <3>1. CASE c.spilled
      BY <2>1, <3>1 DEF OfOnePiece, Taken
    <3>2. CASE ~c.spilled
      <4>1. c.spill = <<>>
        BY <2>1, <3>2 DEF OfOnePiece
      <4> QED
        BY <4>1, InMemoryIsBound
    <3> QED
      BY <2>2, <3>1, <3>2
  <2> QED
    BY <2>3, <2>4 DEF c
<1>2. main = "done" => files = {} /\ \A s \in Streams : reader[s] # "reading"
  BY DEF IInv, ReadersFollowMain, Ending
<1> QED
  BY <1>1, <1>2 DEF NothingIsLeft

\* A digest is built from all that the tool wrote, for every text, limit and buffer
\* size and in every interleaving (run_argv).
THEOREM NothingIsLostAlways == Spec => []NothingIsLost
  BY CaptureIsWhole, NothingIsLostNow, PTL

\* A run is bounded in memory and on the disk, and leaves nothing behind
\* (run_child_captured).
THEOREM NothingIsLeftAlways == Spec => []NothingIsLeft
  BY CaptureIsWhole, NothingIsLeftNow, PTL

=============================================================================

------------------------- MODULE CodecViews_proofs -------------------------
(***************************************************************************)
(* Theorems about CodecViews, for any number of iterators, any length of   *)
(* the base range and any deterministic codec that keeps its contract:     *)
(* both views are multi-pass, == of their iterators says whether they      *)
(* stand on the same element, and their codec is called as                 *)
(* codec_concepts.hpp says.                                                *)
(*                                                                         *)
(* What an iterator holds and has yielded is a point.  The points the      *)
(* iterators have been at make one course, each determined by the one      *)
(* before it and by what the codec has been found to do, so a copy, or an  *)
(* iterator begun late, can only go over the course the first one went, or *)
(* continue it.  The course is ordered: a step reads more of the base      *)
(* range, or owes less, or goes on to a later byte, so iterators at two    *)
(* points differ in what == compares.                                      *)
(***************************************************************************)
EXTENDS CodecViews, SequenceTheorems, WellFoundedInduction, TLAPS

-----------------------------------------------------------------------------
\* How far an iterator is: in the base range, in what the codec owes there,
\* and in the bytes of an element.
Ranks == [at : Nat, owes : Nat, pos : Nat]

\* Rank x comes before rank y.
Before(x, y) ==
  \/ x.at < y.at
  \/ x.at = y.at /\ x.owes > y.owes
  \/ x.at = y.at /\ x.owes = y.owes /\ x.pos < y.pos

\* An iterator, the elements it has stood on, whether it has come to stand on
\* another one here, whether it is the end, and how far it is.
Points(its, elements) ==
  [it : its, seen : Seq(elements), stands : BOOLEAN, done : BOOLEAN, rank : Ranks]

\* The point p comes before q on a course.
Precedes(p, q) ==
  /\ IsPrefixOf(p.seen, q.seen)
  /\ q.stands => Len(p.seen) < Len(q.seen)
  /\ ~p.done
  /\ ~q.done => Before(p.rank, q.rank)

Ordered(T) == \A k, l \in 1 .. Len(T) : k < l => Precedes(T[k], T[l])

\* codec_does only grows.
Grows ==
  \A key \in DOMAIN codec_does :
    key \in DOMAIN codec_does' /\ codec_does'[key] = codec_does[key]

\* An iterator inside load() is not none.
LEMMA NotIdle == \A i, s : <<i, s>> # Idle
  BY DEF Idle

\* Pairs are equal component by component.
LEMMA Pairs == \A i, s, j, t : <<i, s>> = <<j, t>> <=> i = j /\ s = t
  OBVIOUS

\* A sequence is a prefix of itself.
LEMMA PrefixOfItself == \A S : \A s \in Seq(S) : IsPrefixOf(s, s)
  BY DEF IsPrefixOf

\* A sequence is a proper prefix of itself with an element appended.
LEMMA PrefixOfAppended ==
  \A S : \A s \in Seq(S), e \in S :
    IsPrefixOf(s, Append(s, e)) /\ Len(s) < Len(Append(s, e))
  BY DEF IsPrefixOf

\* Points come one after another along a course.
LEMMA PrecedesTransitive ==
  ASSUME NEW its, NEW elements, NEW p \in Points(its, elements),
         NEW q \in Points(its, elements), NEW r \in Points(its, elements),
         Precedes(p, q), Precedes(q, r)
  PROVE  Precedes(p, r)
<1>1. IsPrefixOf(p.seen, r.seen) /\ Len(p.seen) <= Len(q.seen)
      /\ Len(p.seen) \in Nat /\ Len(q.seen) \in Nat /\ Len(r.seen) \in Nat
  BY DEF Precedes, IsPrefixOf, Points
<1>2. Before(p.rank, q.rank) /\ Before(q.rank, r.rank) => Before(p.rank, r.rank)
  BY SMTT(30) DEF Before, Ranks, Points
<1> QED
  BY <1>1, <1>2 DEF Precedes

\* A course goes on with any point its last point precedes.
LEMMA OrderedAppend ==
  ASSUME NEW its, NEW elements, NEW T \in Seq(Points(its, elements)), Ordered(T),
         NEW q \in Points(its, elements), Len(T) >= 1, Precedes(T[Len(T)], q)
  PROVE  Ordered(Append(T, q))
<1> SUFFICES ASSUME NEW k \in 1 .. Len(T) + 1, NEW l \in 1 .. Len(T) + 1, k < l
             PROVE  Precedes(Append(T, q)[k], Append(T, q)[l])
  BY DEF Ordered
<1>1. CASE l <= Len(T)
  BY <1>1 DEF Ordered
<1>2. CASE l = Len(T) + 1 /\ k = Len(T)
  BY <1>2
<1>3. CASE l = Len(T) + 1 /\ k < Len(T)
  <2>1. Precedes(T[k], T[Len(T)])
    BY <1>3 DEF Ordered
  <2>2. Precedes(T[k], q)
    BY <2>1, <1>3, PrecedesTransitive
  <2> QED
    BY <2>2, <1>3
<1> QED
  BY <1>1, <1>2, <1>3

\* A call of the codec adds what it does, and changes nothing known before.
LEMMA CodecGrows ==
  ASSUME NEW key, NEW outcomes, NEW o, CodecDoes(key, outcomes, o)
  PROVE  /\ Grows
         /\ key \in DOMAIN codec_does' /\ codec_does'[key] = o
         /\ DOMAIN codec_does' = DOMAIN codec_does \cup {key}
  BY DEF CodecDoes, Grows
-----------------------------------------------------------------------------
\* The iterators of decode_view, and the points they are at.
DIterators ==
  [kind : {"iterator"}, current : 0 .. Length, codec : Codecs,
   value : Values \cup {None}, done : BOOLEAN]

DPoints == Points(DIterators, Values)

\* decode_first is called at the beginning.
Opening == Decoding!BomAware /\ 0 < Length

DPoint(x, s, stands) ==
  [it |-> x, seen |-> s, stands |-> stands, done |-> x.done,
   rank |-> [at |-> x.current, owes |-> x.codec, pos |-> 0]]

\* The call made after the k-th point of the course, of an iterator that is x.
DOp(k, x) ==
  IF k = 1 /\ Opening THEN "first"
  ELSE IF x.current # Length THEN "one"
  ELSE IF Decoding!Flushable THEN "flush" ELSE "end"

DKey(k, x) == <<DOp(k, x), x.current, x.codec>>

\* The point after one at x with the elements s, when the codec does o.
DAfter(k, x, s, o) ==
  IF DOp(k, x) = "flush" /\ o.result \in {None, Empty}
  THEN DPoint([x EXCEPT !.codec = o.owes, !.done = TRUE], s, FALSE)
  ELSE IF o.result = Empty
  THEN DPoint([x EXCEPT !.current = o.to, !.codec = o.owes], s, FALSE)
  ELSE DPoint([x EXCEPT !.current = o.to, !.codec = o.owes, !.value = o.result],
              Append(s, o.result), TRUE)

\* q is the point after the k-th, which is at x with the elements s.
DAgreed(k, x, s, q) ==
  IF DOp(k, x) = "end" THEN q = DPoint([x EXCEPT !.done = TRUE], s, FALSE)
  ELSE /\ DKey(k, x) \in DOMAIN codec_does
       /\ \E o : o = codec_does[DKey(k, x)] /\ q = DAfter(k, x, s, o)

\* What begin() makes before it loads an element.
DNew == Decoding!Iterator(0, 0, None, FALSE)

\* T is a course of decode_view's iterators.
DTrace(T) ==
  /\ T \in Seq(DPoints)
  /\ Len(T) >= 1
  /\ T[1] = DPoint(DNew, <<>>, FALSE)
  /\ \A k \in 1 .. Len(T) - 1 : DAgreed(k, T[k].it, T[k].seen, T[k + 1])
  /\ Ordered(T)

\* Iterator i is at the k-th point of T.
DStandsAt(i, T, k) ==
  /\ T[k] = DPoint(it[i], seen[i], T[k].stands)
  /\ Ready(i) /\ ~it[i].done => T[k].stands
  /\ loading = <<i, "first">> => k = 1 /\ Opening
  /\ loading = <<i, "next">> => ~(k = 1 /\ Opening)

\* Every iterator is on one course.
DTraced ==
  \E T : /\ DTrace(T)
         /\ \A i \in Iterators : it[i] # Unused =>
              \E k \in 1 .. Len(T) : DStandsAt(i, T, k)

DCalls == {"first", "one", "flush"} \X (Values \cup {Empty, None})

\* The types, which calls are possible, and that an unused iterator has done
\* nothing.
DType ==
  /\ it \in [Iterators -> DIterators \cup {Unused}]
  /\ seen \in [Iterators -> Seq(Values)]
  /\ calls \in [Iterators -> Seq(DCalls)]
  /\ \/ loading = Idle
     \/ \E i \in Iterators, op \in {"first", "next"} :
          loading = <<i, op>> /\ it[i] # Unused /\ ~it[i].done
  /\ DOMAIN codec_does \subseteq {"first", "one", "flush"} \X (0 .. Length) \X Codecs
  /\ \A i \in Iterators : it[i] = Unused => seen[i] = <<>> /\ calls[i] = <<>>

\* No iterator of decode_view is the unused one.
LEMMA IteratorsAreUsed == \A x \in DIterators : x # Unused
  BY DEF DIterators, Unused

\* The iterator begin() makes has its type and is not at the end.
LEMMA NewTyped == DNew \in DIterators /\ ~DNew.done
  BY ViewAssumption DEF DNew, DIterators, Decoding!Iterator, Codecs

\* Points of decode_view have their type.
LEMMA DPointTyped ==
  \A x \in DIterators, s \in Seq(Values), b \in BOOLEAN : DPoint(x, s, b) \in DPoints
<1>1. \A x \in DIterators : [at |-> x.current, owes |-> x.codec, pos |-> 0] \in Ranks
  BY ViewAssumption DEF DIterators, Ranks, Codecs
<1> QED
  BY <1>1 DEF DPoint, DPoints, Points, DIterators

\* What a point of decode_view is made of.
LEMMA DPointFields ==
  \A p, x, s, b : p = DPoint(x, s, b) =>
    /\ p.it = x /\ p.seen = s /\ p.done = x.done
    /\ p.rank = [at |-> x.current, owes |-> x.codec, pos |-> 0]
  BY DEF DPoint

\* What an outcome of a call can be.
LEMMA DOutcome ==
  ASSUME NEW op, NEW p \in 0 .. Length, NEW c \in Codecs,
         NEW o \in Decoding!Outcomes(op, p, c), op = "flush" => p = Length
  PROVE  /\ o.to \in p .. Length /\ o.owes \in Codecs
         /\ o.result \in Values \cup {Empty, None}
         /\ o.result = None => op = "flush"
         /\ o.result # None => o.to > p \/ o.owes < c
  BY ViewAssumption, ValuesAssumption
  DEF Decoding!Outcomes, Decoding!FlushOutcomes, Decoding!DecodeOutcomes,
      Decoding!Moves, Decoding!Codecs, Codecs, Decoding!Empty, Decoding!None, Empty, None

\* A call the codec answers with o takes iterator i from its point p to another.
LEMMA DAnswered ==
  ASSUME DType, NEW i \in Iterators, NEW k \in Nat, NEW p \in DPoints, NEW x, NEW s,
         p = DPoint(x, s, p.stands), x = it[i], s = seen[i], x # Unused, ~x.done,
         DOp(k, x) # "end", DOp(k, x) = "flush" => x.current = Length,
         NEW o \in Decoding!Outcomes(DOp(k, x), x.current, x.codec),
         Decoding!Does(i, DOp(k, x), o),
         IF DOp(k, x) = "flush" /\ o.result \in {None, Empty}
         THEN Decoding!Stop(i, o.owes) ELSE Decoding!Use(i, o)
  PROVE  \E q \in DPoints :
           /\ q = DPoint(it'[i], seen'[i], q.stands)
           /\ DAgreed(k, x, s, q)'
           /\ Precedes(p, q)
           /\ q.done \/ q.stands \/ loading' = <<i, "next">>
           /\ loading' = Idle \/ (loading' = <<i, "next">> /\ ~it'[i].done)
           /\ Grows
           /\ it' = [it EXCEPT ![i] = q.it] /\ seen' = [seen EXCEPT ![i] = q.seen]
<1>1. x \in DIterators /\ s \in Seq(Values)
  BY DEF DType
<1>2. UNCHANGED models
  BY DEF Decoding!Does
<1>3. \A y : DOp(k, y)' = DOp(k, y)
  BY <1>2 DEF DOp, Opening, Decoding!BomAware, Decoding!Flushable
<1>4. x.current \in 0 .. Length /\ x.codec \in Codecs /\ x.codec \in Nat
      /\ x.current \in Nat /\ x.done = FALSE
  BY <1>1, ViewAssumption DEF DIterators, Codecs
<1>5. /\ o.to \in x.current .. Length /\ o.owes \in Codecs
      /\ o.result \in Values \cup {Empty, None}
      /\ o.result = None => DOp(k, x) = "flush"
      /\ o.result # None => o.to > x.current \/ o.owes < x.codec
      /\ o.to \in 0 .. Length /\ o.to \in Nat /\ o.owes \in Nat
  <2>1. /\ o.to \in x.current .. Length /\ o.owes \in Codecs
        /\ o.result \in Values \cup {Empty, None}
        /\ o.result = None => DOp(k, x) = "flush"
        /\ o.result # None => o.to > x.current \/ o.owes < x.codec
    BY <1>4, DOutcome
  <2> QED
    BY <2>1, <1>4, ViewAssumption DEF Codecs
<1>6. /\ Grows /\ DKey(k, x) \in DOMAIN codec_does'
      /\ codec_does'[DKey(k, x)] = o
  <2>1. Decoding!CodecDoes(DKey(k, x), Decoding!Outcomes(DOp(k, x), x.current, x.codec), o)
    BY DEF Decoding!Does, DKey
  <2>2. CodecDoes(DKey(k, x), Decoding!Outcomes(DOp(k, x), x.current, x.codec), o)
    BY <2>1 DEF Decoding!CodecDoes, CodecDoes
  <2> QED
    BY <2>2, CodecGrows
<1>11. PICK q : q = DAfter(k, x, s, o)
  OBVIOUS
<1>7. DAgreed(k, x, s, q)'
  <2>1. DKey(k, x)' = DKey(k, x)
    BY <1>3 DEF DKey
  <2>2. DAfter(k, x, s, o)' = DAfter(k, x, s, o)
    BY <1>3 DEF DAfter
  <2> QED
    BY <1>6, <1>3, <1>11, <2>1, <2>2 DEF DAgreed
<1>8. /\ p.seen = s /\ p.done = FALSE
      /\ p.rank = [at |-> x.current, owes |-> x.codec, pos |-> 0]
  BY <1>4 DEF DPoint
<1>9. /\ \E y \in DIterators, t \in Seq(Values), b \in BOOLEAN :
           /\ q = DPoint(y, t, b) /\ it' = [it EXCEPT ![i] = y]
           /\ seen' = [seen EXCEPT ![i] = t]
      /\ Precedes(p, q)
      /\ q.done \/ q.stands \/ loading' = <<i, "next">>
      /\ loading' = Idle \/ (loading' = <<i, "next">> /\ ~q.done)
  <2>1. CASE DOp(k, x) = "flush" /\ o.result \in {None, Empty}
    <3> DEFINE y == [x EXCEPT !.codec = o.owes, !.done = TRUE]
    <3>1. it' = [it EXCEPT ![i] = y] /\ loading' = Idle /\ seen' = seen
      BY <2>1 DEF Decoding!Stop, Decoding!Idle, Idle
    <3>2. y \in DIterators /\ y.done = TRUE
      BY <1>1, <1>5 DEF DIterators
    <3>3. q = DPoint(y, s, FALSE)
      BY <2>1, <1>11 DEF DAfter
    <3>4. Precedes(p, q)
      BY <3>2, <3>3, <1>1, <1>8, PrefixOfItself DEF Precedes, DPoint
    <3>5. seen' = [seen EXCEPT ![i] = s]
      BY <3>1 DEF DType
    <3> HIDE DEF y
    <3>6. q.done
      BY <3>2, <3>3 DEF DPoint
    <3>7. \E z \in DIterators, t \in Seq(Values), c \in BOOLEAN :
            /\ q = DPoint(z, t, c) /\ it' = [it EXCEPT ![i] = z]
            /\ seen' = [seen EXCEPT ![i] = t]
      BY <3>1, <3>2, <3>3, <3>5, <1>1
    <3> QED
      BY <3>1, <3>4, <3>6, <3>7
  <2>2. CASE ~(DOp(k, x) = "flush" /\ o.result \in {None, Empty}) /\ o.result = Empty
    <3> DEFINE y == [x EXCEPT !.current = o.to, !.codec = o.owes]
    <3>1. it' = [it EXCEPT ![i] = y] /\ loading' = <<i, "next">> /\ seen' = seen
      BY <2>2, <1>1 DEF Decoding!Use, DIterators, DType, Decoding!Empty, Empty
    <3>2. y \in DIterators /\ ~y.done /\ y.current = o.to /\ y.codec = o.owes
      BY <1>1, <1>4, <1>5 DEF DIterators
    <3>3. q = DPoint(y, s, FALSE)
      BY <2>2, <1>11 DEF DAfter
    <3>4. Precedes(p, q)
      BY <3>2, <3>3, <1>1, <1>4, <1>5, <1>8, <2>2, PrefixOfItself
      DEF Precedes, DPoint, Before, Empty, None
    <3>5. seen' = [seen EXCEPT ![i] = s]
      BY <3>1 DEF DType
    <3> HIDE DEF y
    <3> QED
      BY <3>1, <3>2, <3>3, <3>4, <3>5, <1>1 DEF DPoint
  <2>3. CASE ~(DOp(k, x) = "flush" /\ o.result \in {None, Empty}) /\ o.result # Empty
    <3> DEFINE y == [x EXCEPT !.current = o.to, !.codec = o.owes, !.value = o.result]
               t == Append(s, o.result)
    <3>1. it' = [it EXCEPT ![i] = y] /\ loading' = Idle
          /\ seen' = [seen EXCEPT ![i] = t]
      BY <2>3, <1>1 DEF Decoding!Use, DIterators, DType, Decoding!Empty, Empty,
         Decoding!Idle, Idle
    <3>2. o.result \in Values /\ o.result # None
      BY <2>3, <1>5
    <3>3. y \in DIterators /\ ~y.done /\ y.current = o.to /\ y.codec = o.owes
      BY <1>1, <1>4, <1>5, <3>2 DEF DIterators
    <3>4. q = DPoint(y, t, TRUE)
      BY <2>3, <1>11 DEF DAfter
    <3>5. Precedes(p, q)
      BY <3>2, <3>3, <3>4, <1>1, <1>4, <1>5, <1>8, PrefixOfAppended, SMTT(30)
      DEF Precedes, DPoint, Before
    <3>6. t \in Seq(Values)
      BY <3>2, <1>1
    <3> HIDE DEF y, t
    <3> QED
      BY <3>1, <3>3, <3>4, <3>5, <3>6, <1>1 DEF DPoint
  <2> QED
    BY <2>1, <2>2, <2>3
<1>10. PICK y \in DIterators, t \in Seq(Values), b \in BOOLEAN :
         /\ q = DPoint(y, t, b) /\ it' = [it EXCEPT ![i] = y]
         /\ seen' = [seen EXCEPT ![i] = t]
  BY <1>9
<1>12. /\ q \in DPoints /\ q.it = y /\ q.seen = t /\ q.stands = b /\ q.done = y.done
  BY <1>10, DPointTyped DEF DPoint
<1>13. it'[i] = y /\ seen'[i] = t
  BY <1>10 DEF DType
<1>14. q = DPoint(it'[i], seen'[i], q.stands)
       /\ it' = [it EXCEPT ![i] = q.it] /\ seen' = [seen EXCEPT ![i] = q.seen]
  BY <1>10, <1>12, <1>13
<1>15. loading' = Idle \/ (loading' = <<i, "next">> /\ ~it'[i].done)
  BY <1>9, <1>12, <1>13
<1> QED
  BY <1>6, <1>7, <1>9, <1>12, <1>14, <1>15

\* At the end of the range, a codec that is not flushed ends the view.
LEMMA DEnded ==
  ASSUME DType, NEW i \in Iterators, NEW k \in Nat, NEW p \in DPoints, NEW x, NEW s,
         p = DPoint(x, s, p.stands), x = it[i], s = seen[i], x # Unused, ~x.done,
         DOp(k, x) = "end", Decoding!Stop(i, x.codec), UNCHANGED <<models, codec_does>>
  PROVE  \E q \in DPoints :
           /\ q = DPoint(it'[i], seen'[i], q.stands)
           /\ DAgreed(k, x, s, q)'
           /\ Precedes(p, q)
           /\ q.done \/ q.stands \/ loading' = <<i, "next">>
           /\ loading' = Idle \/ (loading' = <<i, "next">> /\ ~it'[i].done)
           /\ Grows
           /\ it' = [it EXCEPT ![i] = q.it] /\ seen' = [seen EXCEPT ![i] = q.seen]
<1>1. x \in DIterators /\ s \in Seq(Values) /\ x.done = FALSE
  BY DEF DType, DIterators
<1>2. \A y : DOp(k, y)' = DOp(k, y)
  BY DEF DOp, Opening, Decoding!BomAware, Decoding!Flushable
<1>3. PICK y : y = [x EXCEPT !.done = TRUE]
  OBVIOUS
<1>4. PICK q : q = DPoint(y, s, FALSE)
  OBVIOUS
<1>5. y \in DIterators /\ y.done
  BY <1>1, <1>3 DEF DIterators
<1>6. it' = [it EXCEPT ![i] = y] /\ loading' = Idle /\ seen' = [seen EXCEPT ![i] = s]
  BY <1>1, <1>3 DEF Decoding!Stop, Decoding!Idle, Idle, DIterators, DType
<1>7. q \in DPoints
  BY <1>1, <1>4, <1>5, DPointTyped
<1>8. q.it = y /\ q.seen = s /\ q.done = y.done /\ q.stands = FALSE
      /\ p.seen = s /\ p.done = FALSE
  BY <1>1, <1>4 DEF DPoint
<1>9. DAgreed(k, x, s, q)'
  BY <1>2, <1>3, <1>4 DEF DAgreed
<1>10. Precedes(p, q)
  BY <1>1, <1>5, <1>8, PrefixOfItself DEF Precedes
<1>11. it'[i] = y /\ seen'[i] = s
  BY <1>6 DEF DType
<1>12. Grows
  BY DEF Grows
<1>13. q = DPoint(it'[i], seen'[i], q.stands) /\ q.done
  BY <1>4, <1>5, <1>8, <1>11
<1> QED
  BY <1>6, <1>7, <1>8, <1>9, <1>10, <1>12, <1>13

\* A step of load() takes iterator i from the k-th point to the next one.
LEMMA DLoads ==
  ASSUME DType, NEW i \in Iterators, Decoding!Load(i), NEW T, DTrace(T),
         NEW k \in 1 .. Len(T), DStandsAt(i, T, k)
  PROVE  /\ \E q \in DPoints :
              /\ q = DPoint(it'[i], seen'[i], q.stands)
              /\ DAgreed(k, T[k].it, T[k].seen, q)'
              /\ Precedes(T[k], q)
              /\ q.done \/ q.stands \/ loading' = <<i, "next">>
              /\ loading' = Idle \/ (loading' = <<i, "next">> /\ ~it'[i].done)
              /\ Grows
              /\ it' = [it EXCEPT ![i] = q.it] /\ seen' = [seen EXCEPT ![i] = q.seen]
         /\ UNCHANGED models
         /\ it[i] # Unused
         /\ \A j \in Iterators : loading \in {<<j, "first">>, <<j, "next">>} => j = i
<1>1. PICK p : p = T[k]
  OBVIOUS
<1>2. PICK x : x = it[i]
  OBVIOUS
<1>3. PICK s : s = seen[i]
  OBVIOUS
<1>4. loading = <<i, "first">> \/ loading = <<i, "next">>
  BY DEF Decoding!Load, Decoding!DecodeFirst, Decoding!DecodeOne,
     Decoding!Flush, Decoding!End
<1>5. x # Unused /\ ~x.done
  BY <1>2, <1>4, NotIdle, Pairs DEF DType
<1>6. k \in Nat /\ p \in DPoints /\ p = DPoint(x, s, p.stands) /\ p.it = x /\ p.seen = s
  BY <1>1, <1>2, <1>3 DEF DTrace, DStandsAt, DPoint
<1>7. UNCHANGED models
  BY DEF Decoding!Load, Decoding!DecodeFirst, Decoding!DecodeOne,
     Decoding!Flush, Decoding!End, Decoding!Does
<1>8. \E q \in DPoints :
           /\ q = DPoint(it'[i], seen'[i], q.stands)
           /\ DAgreed(k, x, s, q)'
           /\ Precedes(p, q)
           /\ q.done \/ q.stands \/ loading' = <<i, "next">>
           /\ loading' = Idle \/ (loading' = <<i, "next">> /\ ~it'[i].done)
           /\ Grows
           /\ it' = [it EXCEPT ![i] = q.it] /\ seen' = [seen EXCEPT ![i] = q.seen]
  <2>1. CASE Decoding!DecodeFirst(i)
    <3>1. DOp(k, x) = "first"
      BY <2>1 DEF Decoding!DecodeFirst, DStandsAt, DOp
    <3>2. PICK o \in Decoding!Outcomes("first", x.current, x.codec) :
             Decoding!Does(i, "first", o) /\ Decoding!Use(i, o)
      BY <2>1, <1>2 DEF Decoding!DecodeFirst
    <3> QED
      BY <3>1, <3>2, <1>2, <1>3, <1>5, <1>6, DAnswered
  <2>2. CASE Decoding!DecodeOne(i)
    <3>1. DOp(k, x) = "one"
      BY <2>2, <1>2 DEF Decoding!DecodeOne, DStandsAt, DOp
    <3>2. PICK o \in Decoding!Outcomes("one", x.current, x.codec) :
             Decoding!Does(i, "one", o) /\ Decoding!Use(i, o)
      BY <2>2, <1>2 DEF Decoding!DecodeOne
    <3> QED
      BY <3>1, <3>2, <1>2, <1>3, <1>5, <1>6, DAnswered
  <2>3. CASE Decoding!Flush(i)
    <3>1. DOp(k, x) = "flush" /\ x.current = Length
      BY <2>3, <1>2 DEF Decoding!Flush, DStandsAt, DOp
    <3>2. PICK o \in Decoding!Outcomes("flush", x.current, x.codec) :
             /\ Decoding!Does(i, "flush", o)
             /\ IF o.result \in {None, Empty} THEN Decoding!Stop(i, o.owes)
                ELSE Decoding!Use(i, o)
      BY <2>3, <1>2, <3>1 DEF Decoding!Flush, Decoding!None, Decoding!Empty, None, Empty
    <3> QED
      BY <3>1, <3>2, <1>2, <1>3, <1>5, <1>6, DAnswered
  <2>4. CASE Decoding!End(i)
    <3>1. /\ DOp(k, x) = "end" /\ Decoding!Stop(i, x.codec)
          /\ UNCHANGED <<models, codec_does>>
      BY <2>4, <1>2 DEF Decoding!End, DStandsAt, DOp
    <3> QED
      BY <3>1, <1>2, <1>3, <1>5, <1>6, DEnded, SMTT(30)
  <2> QED
    BY <2>1, <2>2, <2>3, <2>4 DEF Decoding!Load
<1>9. \A j \in Iterators : loading \in {<<j, "first">>, <<j, "next">>} => j = i
  BY <1>4, Pairs
<1> QED
  BY <1>1, <1>2, <1>5, <1>6, <1>7, <1>8, <1>9

\* What the codec has been found to do it goes on doing.
LEMMA DStillAgreed ==
  ASSUME Grows, UNCHANGED models, NEW k, NEW x, NEW s, NEW q, DAgreed(k, x, s, q)
  PROVE  DAgreed(k, x, s, q)'
<1>1. DOp(k, x)' = DOp(k, x)
  BY DEF DOp, Opening, Decoding!BomAware, Decoding!Flushable
<1>2. DKey(k, x)' = DKey(k, x)
  BY <1>1 DEF DKey
<1>3. \A o : DAfter(k, x, s, o)' = DAfter(k, x, s, o)
  BY <1>1 DEF DAfter
<1> QED
  BY <1>1, <1>2, <1>3 DEF DAgreed, Grows

\* The point after another is determined by what the codec has been found to do.
LEMMA DDeterministic ==
  ASSUME NEW k, NEW x, NEW s, NEW q, NEW r,
         DAgreed(k, x, s, q)', DAgreed(k, x, s, r)'
  PROVE  q = r
<1>1. CASE DOp(k, x)' = "end"
  BY <1>1 DEF DAgreed
<1>2. CASE DOp(k, x)' # "end"
  <2>1. PICK o : o = (codec_does[DKey(k, x)])' /\ q = DAfter(k, x, s, o)'
    BY <1>2 DEF DAgreed
  <2>2. PICK u : u = (codec_does[DKey(k, x)])' /\ r = DAfter(k, x, s, u)'
    BY <1>2 DEF DAgreed
  <2>3. o = u
    BY <2>1, <2>2
  <2> QED
    BY <2>1, <2>2, <2>3
<1> QED
  BY <1>1, <1>2

\* A point after the k-th is the next one of the course, or continues it.
LEMMA DTraceGrows ==
  ASSUME NEW T, DTrace(T), NEW k \in 1 .. Len(T), NEW q \in DPoints,
         DAgreed(k, T[k].it, T[k].seen, q)', Precedes(T[k], q), Grows, UNCHANGED models
  PROVE  \E U : /\ DTrace(U)'
                /\ Len(U) \in Nat /\ Len(U) >= Len(T) /\ Len(U) >= k + 1
                /\ U[k + 1] = q
                /\ \A m \in 1 .. Len(T) : U[m] = T[m]
<1>1. T \in Seq(DPoints) /\ Len(T) >= 1 /\ Len(T) \in Nat /\ Ordered(T)
      /\ T[1] = DPoint(DNew, <<>>, FALSE)
  BY DEF DTrace
<1>2. \A m \in 1 .. Len(T) - 1 : DAgreed(m, T[m].it, T[m].seen, T[m + 1])'
  BY DStillAgreed DEF DTrace
<1>3. CASE k < Len(T)
  <2>1. DAgreed(k, T[k].it, T[k].seen, T[k + 1])'
    BY <1>1, <1>2, <1>3
  <2>2. q = T[k + 1]
    BY <2>1, DDeterministic
  <2>3. DTrace(T)'
    BY <1>1, <1>2 DEF DTrace
  <2> QED
    BY <1>1, <1>3, <2>2, <2>3
<1>4. CASE k = Len(T)
  <2>1. PICK U : U = Append(T, q)
    OBVIOUS
  <2>2. /\ U \in Seq(DPoints) /\ Len(U) = Len(T) + 1 /\ U[Len(T) + 1] = q
        /\ \A m \in 1 .. Len(T) : U[m] = T[m]
    BY <1>1, <2>1
  <2>3. Ordered(U)
    BY <1>1, <1>4, <2>1, OrderedAppend DEF DPoints
  <2>4. \A m \in 1 .. Len(U) - 1 : DAgreed(m, U[m].it, U[m].seen, U[m + 1])'
    <3> TAKE m \in 1 .. Len(U) - 1
    <3>1. CASE m < Len(T)
      <4>1. m \in 1 .. Len(T) - 1 /\ U[m] = T[m] /\ U[m + 1] = T[m + 1]
        BY <3>1, <2>2, <1>1
      <4> QED
        BY <4>1, <1>2
    <3>2. CASE m = Len(T)
      BY <3>2, <1>4, <2>2
    <3> QED
      BY <3>1, <3>2, <2>2, <1>1
  <2>5. U[1] = DPoint(DNew, <<>>, FALSE) /\ Len(U) >= 1
    <3>1. 1 \in 1 .. Len(T)
      BY <1>1
    <3>2. U[1] = T[1]
      BY <2>2, <3>1
    <3>3. Len(U) >= 1
      BY <2>2, <1>1
    <3> QED
      BY <1>1, <3>2, <3>3
  <2>6. DTrace(U)'
    BY <2>2, <2>3, <2>4, <2>5 DEF DTrace
  <2> QED
    BY <1>1, <1>4, <2>2, <2>6
<1> QED
  BY <1>1, <1>3, <1>4

\* A step of load() in decode_view keeps the iterators on one course.
LEMMA DLoadKeepsTrace ==
  ASSUME DType, DTraced, NEW i \in Iterators, Decoding!Load(i)
  PROVE  DTraced'
<1>1. PICK T : /\ DTrace(T)
               /\ \A j \in Iterators : it[j] # Unused =>
                    \E k \in 1 .. Len(T) : DStandsAt(j, T, k)
  BY DEF DTraced
<1>2. it[i] # Unused
      /\ (loading = <<i, "first">> \/ loading = <<i, "next">>)
  <2>1. loading = <<i, "first">> \/ loading = <<i, "next">>
    BY DEF Decoding!Load, Decoding!DecodeFirst, Decoding!DecodeOne,
       Decoding!Flush, Decoding!End
  <2> QED
    BY <2>1, NotIdle, Pairs DEF DType
<1>3. PICK k \in 1 .. Len(T) : DStandsAt(i, T, k)
  BY <1>1, <1>2
<1>4. PICK q \in DPoints :
              /\ q = DPoint(it'[i], seen'[i], q.stands)
              /\ DAgreed(k, T[k].it, T[k].seen, q)'
              /\ Precedes(T[k], q)
              /\ q.done \/ q.stands \/ loading' = <<i, "next">>
              /\ loading' = Idle \/ (loading' = <<i, "next">> /\ ~it'[i].done)
              /\ Grows
              /\ it' = [it EXCEPT ![i] = q.it] /\ seen' = [seen EXCEPT ![i] = q.seen]
  BY <1>1, <1>3, DLoads
<1>5. UNCHANGED models
  BY <1>1, <1>3, DLoads
<1>6. PICK U : /\ DTrace(U)'
               /\ Len(U) \in Nat /\ Len(U) >= Len(T) /\ Len(U) >= k + 1
               /\ U[k + 1] = q
               /\ \A m \in 1 .. Len(T) : U[m] = T[m]
  BY <1>1, <1>4, <1>5, DTraceGrows
<1>7. Len(T) \in Nat
  BY <1>1 DEF DTrace
<1>8. SUFFICES ASSUME NEW j \in Iterators, it'[j] # Unused
               PROVE  \E m \in 1 .. Len(U) : DStandsAt(j, U, m)'
  BY <1>6 DEF DTraced
<1>9. CASE j = i
  <2>1. loading' # <<i, "first">> /\ (loading' = <<i, "next">> => ~(k + 1 = 1 /\ Opening'))
    BY <1>4, NotIdle, Pairs
  <2>2. q.done = it'[i].done
    BY <1>4 DEF DPoint
  <2>3. Ready(i)' /\ ~it'[i].done => q.stands
    BY <1>4, <2>2, SMTT(30) DEF Ready, Idle
  <2>4. DStandsAt(i, U, k + 1)'
    BY <1>4, <1>6, <2>1, <2>3 DEF DStandsAt
  <2> QED
    BY <1>6, <1>9, <2>4
<1>10. CASE j # i
  <2>1. it'[j] = it[j] /\ seen'[j] = seen[j]
    BY <1>4, <1>10 DEF DType
  <2>2. PICK m \in 1 .. Len(T) : DStandsAt(j, T, m)
    BY <2>1, <1>1, <1>8
  <2>3. loading' # <<j, "first">> /\ loading' # <<j, "next">>
    BY <1>4, <1>10, NotIdle, Pairs
  <2>4. Ready(j)
    BY <2>1, <1>8, <1>2, <1>10 DEF Ready
  <2>5. DStandsAt(j, U, m)'
    BY <2>1, <2>2, <2>3, <2>4, <1>6 DEF DStandsAt
  <2>6. m \in 1 .. Len(U)
    BY <1>6, <1>7
  <2> QED
    BY <2>5, <2>6
<1> QED
  BY <1>9, <1>10

\* begin() of decode_view puts an iterator at the beginning of the course.
LEMMA DBeginKeepsTrace ==
  ASSUME DType, DTraced, NEW i \in Iterators, Decoding!Begin(i)
  PROVE  DTraced'
<1>1. PICK T : /\ DTrace(T)
               /\ \A j \in Iterators : it[j] # Unused =>
                    \E k \in 1 .. Len(T) : DStandsAt(j, T, k)
  BY DEF DTraced
<1>2. /\ loading = Idle /\ it[i] = Unused /\ seen[i] = <<>>
      /\ it' = [it EXCEPT ![i] = DNew]
      /\ loading' = <<i, IF Opening THEN "first" ELSE "next">>
      /\ UNCHANGED <<models, codec_does, seen, calls>>
  BY DEF Decoding!Begin, Decoding!Idle, Idle, Decoding!Unused, Unused, DNew, Opening,
     DType, Decoding!None, None
<1>3. Grows
  BY <1>2 DEF Grows
<1>4. DTrace(T)'
  BY <1>1, <1>2, <1>3, DStillAgreed DEF DTrace
<1>5. SUFFICES ASSUME NEW j \in Iterators, it'[j] # Unused
               PROVE  \E m \in 1 .. Len(T) : DStandsAt(j, T, m)'
  BY <1>4 DEF DTraced
<1>6. CASE j = i
  <2>1. T[1] = DPoint(DNew, <<>>, FALSE) /\ T[1].stands = FALSE /\ 1 \in 1 .. Len(T)
    BY <1>1 DEF DTrace, DPoint
  <2>2. it'[i] = DNew /\ seen'[i] = <<>>
    BY <1>2 DEF DType
  <2>3. ~Ready(i)'
    BY <1>2, NotIdle DEF Ready
  <2>4. loading' = <<i, "first">> => Opening
    BY <1>2
  <2>5. loading' = <<i, "next">> => ~Opening
    BY <1>2
  <2>6. Opening' = Opening
    BY <1>2 DEF Opening, Decoding!BomAware
  <2>7. DStandsAt(i, T, 1)'
    BY <2>1, <2>2, <2>3, <2>4, <2>5, <2>6 DEF DStandsAt
  <2> QED
    BY <2>1, <2>7, <1>6
<1>7. CASE j # i
  <2>1. it'[j] = it[j] /\ seen'[j] = seen[j]
    BY <1>2, <1>7 DEF DType
  <2>2. PICK m \in 1 .. Len(T) : DStandsAt(j, T, m)
    BY <2>1, <1>1, <1>5
  <2>3. loading' # <<j, "first">> /\ loading' # <<j, "next">>
    BY <1>2, <1>7, Pairs
  <2>4. Ready(j)
    BY <2>1, <1>2, <1>5 DEF Ready
  <2>5. DStandsAt(j, T, m)'
    BY <2>1, <2>2, <2>3, <2>4 DEF DStandsAt
  <2> QED
    BY <2>5
<1> QED
  BY <1>6, <1>7

\* operator++ of decode_view leaves the iterator where it is until load() steps.
LEMMA DIncrementKeepsTrace ==
  ASSUME DType, DTraced, NEW i \in Iterators, Decoding!Increment(i)
  PROVE  DTraced'
<1>1. PICK T : /\ DTrace(T)
               /\ \A j \in Iterators : it[j] # Unused =>
                    \E k \in 1 .. Len(T) : DStandsAt(j, T, k)
  BY DEF DTraced
<1>2. /\ loading = Idle /\ it[i] # Unused /\ ~it[i].done
      /\ loading' = <<i, "next">>
      /\ UNCHANGED <<models, it, codec_does, seen, calls>>
  BY DEF Decoding!Increment, Decoding!Idle, Idle, Decoding!Unused, Unused
<1>3. Grows
  BY <1>2 DEF Grows
<1>4. DTrace(T)'
  BY <1>1, <1>2, <1>3, DStillAgreed DEF DTrace
<1>5. SUFFICES ASSUME NEW j \in Iterators, it[j] # Unused
               PROVE  \E m \in 1 .. Len(T) : DStandsAt(j, T, m)'
  BY <1>2, <1>4 DEF DTraced
<1>6. PICK m \in 1 .. Len(T) : DStandsAt(j, T, m)
  BY <1>1, <1>5
<1>7. Ready(j)
  BY <1>2, <1>5 DEF Ready
<1>8. loading' # <<j, "first">>
  BY <1>2, Pairs
<1>9. loading' = <<j, "next">> => m # 1
  <2>1. T[1].stands = FALSE
    BY <1>1 DEF DTrace, DPoint
  <2>2. loading' = <<j, "next">> => ~it[j].done
    BY <1>2, Pairs
  <2> QED
    BY <2>1, <2>2, <1>6, <1>7 DEF DStandsAt
<1>10. DStandsAt(j, T, m)'
  BY <1>2, <1>6, <1>7, <1>8, <1>9 DEF DStandsAt
<1> QED
  BY <1>10

\* A copy is where the original is.
LEMMA DCopyKeepsTrace ==
  ASSUME DType, DTraced, NEW i \in Iterators, NEW j \in Iterators, Copy(i, j)
  PROVE  DTraced'
<1>1. PICK T : /\ DTrace(T)
               /\ \A l \in Iterators : it[l] # Unused =>
                    \E k \in 1 .. Len(T) : DStandsAt(l, T, k)
  BY DEF DTraced
<1>2. /\ loading = Idle /\ it[i] # Unused /\ it' = [it EXCEPT ![j] = it[i]]
      /\ seen' = [seen EXCEPT ![j] = seen[i]]
      /\ UNCHANGED <<models, loading, codec_does>>
  BY DEF Copy
<1>3. Grows
  BY <1>2 DEF Grows
<1>4. DTrace(T)'
  BY <1>1, <1>2, <1>3, DStillAgreed DEF DTrace
<1>5. SUFFICES ASSUME NEW l \in Iterators, it'[l] # Unused
               PROVE  \E m \in 1 .. Len(T) : DStandsAt(l, T, m)'
  BY <1>2, <1>4 DEF DTraced
<1>6. PICK f \in Iterators : it[f] # Unused /\ it'[l] = it[f] /\ seen'[l] = seen[f]
  BY <1>2, <1>5 DEF DType
<1>7. PICK m \in 1 .. Len(T) : DStandsAt(f, T, m)
  BY <1>1, <1>6
<1>8. Ready(f) /\ loading' = Idle
  BY <1>2, <1>6 DEF Ready
<1>9. DStandsAt(l, T, m)'
  BY <1>6, <1>7, <1>8, NotIdle DEF DStandsAt
<1> QED
  BY <1>9

\* The calls iterator i has made, and what the next one will be.
DContract(i) ==
  /\ \A k \in 1 .. Len(calls[i]) :
       /\ calls[i][k][1] = "first" <=> k = 1 /\ Opening
       /\ k > 1 /\ calls[i][k - 1][1] = "flush" =>
            calls[i][k][1] = "flush" /\ calls[i][k - 1][2] \notin {None, Empty}
  /\ loading = <<i, "first">> => Len(calls[i]) = 0 /\ Opening
  /\ it[i] # Unused /\ loading # <<i, "first">> /\ Len(calls[i]) = 0 => ~Opening
  /\ it[i] # Unused /\ ~it[i].done /\ Len(calls[i]) > 0
     /\ calls[i][Len(calls[i])][1] = "flush" =>
       it[i].current = Length /\ calls[i][Len(calls[i])][2] \notin {None, Empty}

\* The inductive invariant of decode_view.
DInv == DType /\ DTraced /\ \A i \in Iterators : DContract(i)

\* The call a step of load() makes, if any.
LEMMA DCalled ==
  ASSUME DType, NEW i \in Iterators, Decoding!Load(i)
  PROVE  \/ /\ UNCHANGED <<calls, codec_does>> /\ it'[i].done
            /\ loading = <<i, "next">> /\ loading' = Idle
         \/ \E op \in {"first", "one", "flush"}, r \in Values \cup {Empty, None} :
              /\ calls' = [calls EXCEPT ![i] = Append(@, <<op, r>>)]
              /\ DOMAIN codec_does' =
                   DOMAIN codec_does \cup {<<op, it[i].current, it[i].codec>>}
              /\ loading = <<i, IF op = "first" THEN "first" ELSE "next">>
              /\ op = "one" => it[i].current # Length
              /\ op = "flush" => it[i].current = Length
              /\ op = "flush" => it'[i].done \/ (it'[i].current = Length /\ r \notin {None, Empty})
              /\ loading' = Idle \/ loading' = <<i, "next">>
<1>1. loading = <<i, "first">> \/ loading = <<i, "next">>
  BY DEF Decoding!Load, Decoding!DecodeFirst, Decoding!DecodeOne,
     Decoding!Flush, Decoding!End
<1>2. it[i] \in DIterators
  BY <1>1, NotIdle, Pairs DEF DType
<1>3. it[i].current \in 0 .. Length /\ it[i].codec \in Codecs
  BY <1>2 DEF DIterators
<1>4. ASSUME NEW op, NEW o \in Decoding!Outcomes(op, it[i].current, it[i].codec),
             Decoding!Does(i, op, o), op = "flush" => it[i].current = Length
      PROVE  /\ calls' = [calls EXCEPT ![i] = Append(@, <<op, o.result>>)]
             /\ DOMAIN codec_does' =
                  DOMAIN codec_does \cup {<<op, it[i].current, it[i].codec>>}
             /\ o.result \in Values \cup {Empty, None}
  <2>1. o.result \in Values \cup {Empty, None}
    BY <1>3, <1>4, DOutcome
  <2>2. CodecDoes(<<op, it[i].current, it[i].codec>>,
                  Decoding!Outcomes(op, it[i].current, it[i].codec), o)
    BY <1>4 DEF Decoding!Does, Decoding!CodecDoes, CodecDoes
  <2> QED
    BY <1>4, <2>1, <2>2, CodecGrows DEF Decoding!Does
<1>5. ASSUME NEW o, Decoding!Use(i, o)
      PROVE  loading' = Idle \/ loading' = <<i, "next">>
  BY <1>5 DEF Decoding!Use, Decoding!Idle, Idle
<1>6. CASE Decoding!DecodeFirst(i)
  <2>1. PICK o \in Decoding!Outcomes("first", it[i].current, it[i].codec) :
          Decoding!Does(i, "first", o) /\ Decoding!Use(i, o) /\ loading = <<i, "first">>
    BY <1>6 DEF Decoding!DecodeFirst
  <2> QED
    BY <2>1, <1>4, <1>5
<1>7. CASE Decoding!DecodeOne(i)
  <2>1. PICK o \in Decoding!Outcomes("one", it[i].current, it[i].codec) :
          /\ Decoding!Does(i, "one", o) /\ Decoding!Use(i, o)
          /\ loading = <<i, "next">> /\ it[i].current # Length
    BY <1>7 DEF Decoding!DecodeOne
  <2> QED
    BY <2>1, <1>4, <1>5
<1>8. CASE Decoding!Flush(i)
  <2>1. PICK o \in Decoding!Outcomes("flush", it[i].current, it[i].codec) :
          /\ Decoding!Does(i, "flush", o)
          /\ IF o.result \in {None, Empty} THEN Decoding!Stop(i, o.owes)
             ELSE Decoding!Use(i, o)
          /\ loading = <<i, "next">> /\ it[i].current = Length
    BY <1>8 DEF Decoding!Flush, Decoding!None, Decoding!Empty, None, Empty
  <2>2. o.to \in Length .. Length
    BY <2>1, <1>3, DOutcome
  <2>3. it'[i].done \/ (it'[i].current = Length /\ o.result \notin {None, Empty})
    <3>1. CASE o.result \in {None, Empty}
      BY <2>1, <3>1, <1>2 DEF Decoding!Stop, DIterators, DType
    <3>2. CASE o.result \notin {None, Empty}
      BY <2>1, <2>2, <3>2, <1>2, ViewAssumption
      DEF Decoding!Use, DIterators, DType, Decoding!Empty, Empty
    <3> QED
      BY <3>1, <3>2
  <2>4. loading' = Idle \/ loading' = <<i, "next">>
    BY <2>1, <1>5 DEF Decoding!Stop, Decoding!Idle, Idle
  <2> QED
    BY <2>1, <2>3, <2>4, <1>4
<1>9. CASE Decoding!End(i)
  BY <1>9, <1>2 DEF Decoding!End, Decoding!Stop, DIterators, DType, Decoding!Idle, Idle
<1> QED
  BY <1>6, <1>7, <1>8, <1>9 DEF Decoding!Load

\* A step of load() in decode_view keeps the types.
LEMMA DLoadKeepsType ==
  ASSUME DType, DTraced, NEW i \in Iterators, Decoding!Load(i)
  PROVE  DType' /\ UNCHANGED models
<1>1. it[i] # Unused
      /\ (loading = <<i, "first">> \/ loading = <<i, "next">>)
  <2>1. loading = <<i, "first">> \/ loading = <<i, "next">>
    BY DEF Decoding!Load, Decoding!DecodeFirst, Decoding!DecodeOne,
       Decoding!Flush, Decoding!End
  <2> QED
    BY <2>1, NotIdle, Pairs DEF DType
<1>2. PICK T : DTrace(T) /\ \E k \in 1 .. Len(T) : DStandsAt(i, T, k)
  BY <1>1 DEF DTraced
<1>3. PICK q \in DPoints :
         /\ q = DPoint(it'[i], seen'[i], q.stands)
         /\ loading' = Idle \/ (loading' = <<i, "next">> /\ ~it'[i].done)
         /\ it' = [it EXCEPT ![i] = q.it] /\ seen' = [seen EXCEPT ![i] = q.seen]
  BY <1>2, DLoads
<1>4. UNCHANGED models
  BY <1>2, DLoads
<1>5. q.it \in DIterators /\ q.seen \in Seq(Values)
  BY DEF DPoints, Points
<1>6. /\ it' \in [Iterators -> DIterators \cup {Unused}]
      /\ seen' \in [Iterators -> Seq(Values)]
      /\ it'[i] \in DIterators
      /\ it[i] \in DIterators
  BY <1>1, <1>3, <1>5 DEF DType
<1>7. it'[i] # Unused
  BY <1>6, IteratorsAreUsed
<1>8. \/ loading' = Idle
      \/ \E j \in Iterators, op \in {"first", "next"} :
           loading' = <<j, op>> /\ it'[j] # Unused /\ ~it'[j].done
  BY <1>3, <1>7
<1>9. /\ calls' \in [Iterators -> Seq(DCalls)]
      /\ DOMAIN codec_does' \subseteq {"first", "one", "flush"} \X (0 .. Length) \X Codecs
      /\ \A j \in Iterators \ {i} : calls'[j] = calls[j]
  <2>1. CASE UNCHANGED <<calls, codec_does>>
    BY <2>1 DEF DType
  <2>2. CASE \E op \in {"first", "one", "flush"}, r \in Values \cup {Empty, None} :
              /\ calls' = [calls EXCEPT ![i] = Append(@, <<op, r>>)]
              /\ DOMAIN codec_does' =
                   DOMAIN codec_does \cup {<<op, it[i].current, it[i].codec>>}
    <3>1. PICK op \in {"first", "one", "flush"}, r \in Values \cup {Empty, None} :
              /\ calls' = [calls EXCEPT ![i] = Append(@, <<op, r>>)]
              /\ DOMAIN codec_does' =
                   DOMAIN codec_does \cup {<<op, it[i].current, it[i].codec>>}
      BY <2>2
    <3>2. <<op, r>> \in DCalls
      BY DEF DCalls
    <3>3. it[i].current \in 0 .. Length /\ it[i].codec \in Codecs
      BY <1>6 DEF DIterators
    <3> QED
      BY <3>1, <3>2, <3>3 DEF DType
  <2> QED
    BY <2>1, <2>2, DCalled
<1>10. \A j \in Iterators : it'[j] = Unused => seen'[j] = <<>> /\ calls'[j] = <<>>
  BY <1>3, <1>7, <1>9 DEF DType
<1> QED
  BY <1>4, <1>6, <1>8, <1>9, <1>10 DEF DType

\* The calls of an iterator the step is not about are as they were.
LEMMA DContractElsewhere ==
  ASSUME NEW j, DContract(j), UNCHANGED models, it'[j] = it[j], calls'[j] = calls[j],
         loading' # <<j, "first">>, loading # <<j, "first">>
  PROVE  DContract(j)'
<1>1. Opening' = Opening
  BY DEF Opening, Decoding!BomAware
<1> QED
  BY <1>1 DEF DContract

\* A step of load() in decode_view makes no call against the contract.
LEMMA DLoadKeepsContract ==
  ASSUME DType, DTraced, NEW i \in Iterators, DContract(i), Decoding!Load(i)
  PROVE  DContract(i)'
<1>1. UNCHANGED models
  BY DLoadKeepsType
<1>2. Opening' = Opening
  BY <1>1 DEF Opening, Decoding!BomAware
<1>3. it[i] # Unused /\ ~it[i].done
      /\ (loading = <<i, "first">> \/ loading = <<i, "next">>)
  <2>1. loading = <<i, "first">> \/ loading = <<i, "next">>
    BY DEF Decoding!Load, Decoding!DecodeFirst, Decoding!DecodeOne,
       Decoding!Flush, Decoding!End
  <2> QED
    BY <2>1, NotIdle, Pairs DEF DType
<1>4. calls[i] \in Seq(DCalls)
  BY DEF DType
<1>5. CASE /\ UNCHANGED <<calls, codec_does>> /\ it'[i].done
           /\ loading = <<i, "next">> /\ loading' = Idle
  <2>1. loading' # <<i, "first">> /\ loading # <<i, "first">>
    BY <1>5, NotIdle, Pairs
  <2> QED
    BY <1>2, <1>3, <1>5, <2>1 DEF DContract
<1>6. CASE \E op \in {"first", "one", "flush"}, r \in Values \cup {Empty, None} :
              /\ calls' = [calls EXCEPT ![i] = Append(@, <<op, r>>)]
              /\ loading = <<i, IF op = "first" THEN "first" ELSE "next">>
              /\ op = "one" => it[i].current # Length
              /\ op = "flush" => it[i].current = Length
              /\ op = "flush" => it'[i].done \/ (it'[i].current = Length /\ r \notin {None, Empty})
              /\ loading' = Idle \/ loading' = <<i, "next">>
  <2>1. PICK op \in {"first", "one", "flush"}, r \in Values \cup {Empty, None} :
              /\ calls' = [calls EXCEPT ![i] = Append(@, <<op, r>>)]
              /\ loading = <<i, IF op = "first" THEN "first" ELSE "next">>
              /\ op = "one" => it[i].current # Length
              /\ op = "flush" => it[i].current = Length
              /\ op = "flush" => it'[i].done \/ (it'[i].current = Length /\ r \notin {None, Empty})
              /\ loading' = Idle \/ loading' = <<i, "next">>
    BY <1>6
  <2>2. PICK s : s = calls[i]
    OBVIOUS
  <2>3. PICK t : t = calls'[i]
    OBVIOUS
  <2>4. /\ Len(t) = Len(s) + 1 /\ t[Len(s) + 1] = <<op, r>> /\ Len(s) \in Nat
        /\ \A k \in 1 .. Len(s) : t[k] = s[k]
    <3>1. t = Append(s, <<op, r>>)
      BY <2>1, <2>2, <2>3 DEF DType
    <3> QED
      BY <3>1, <2>2, <1>4
  <2>5. loading' # <<i, "first">>
    BY <2>1, NotIdle, Pairs
  <2>6. op = "first" => Len(s) = 0 /\ Opening
    BY <2>1, <2>2 DEF DContract
  <2>7. op # "first" => loading # <<i, "first">>
    BY <2>1, Pairs
  <2>8. op # "first" /\ Len(s) = 0 => ~Opening
    BY <2>2, <2>7, <1>3 DEF DContract
  <2>9. Len(s) > 0 /\ s[Len(s)][1] = "flush" =>
          it[i].current = Length /\ s[Len(s)][2] \notin {None, Empty}
    BY <2>2, <1>3 DEF DContract
  <2>10. ASSUME NEW k \in 1 .. Len(t)
         PROVE  /\ t[k][1] = "first" <=> k = 1 /\ Opening
                /\ k > 1 /\ t[k - 1][1] = "flush" =>
                     t[k][1] = "flush" /\ t[k - 1][2] \notin {None, Empty}
    <3>1. CASE k <= Len(s)
      <4>1. k \in 1 .. Len(s) /\ t[k] = s[k] /\ (k > 1 => t[k - 1] = s[k - 1])
        BY <3>1, <2>4
      <4> QED
        BY <4>1, <2>2 DEF DContract
    <3>2. CASE k = Len(s) + 1
      <4>1. t[k] = <<op, r>> /\ (k > 1 => t[k - 1] = s[Len(s)] /\ Len(s) > 0)
        BY <3>2, <2>4
      <4>2. t[k][1] = "first" <=> k = 1 /\ Opening
        BY <4>1, <2>4, <2>6, <2>8, <3>2
      <4>3. k > 1 /\ t[k - 1][1] = "flush" =>
              t[k][1] = "flush" /\ t[k - 1][2] \notin {None, Empty}
        BY <4>1, <2>1, <2>4, <2>6, <2>9, <3>2
      <4> QED
        BY <4>2, <4>3
    <3> QED
      BY <3>1, <3>2, <2>4
  <2>11. t[Len(t)] = <<op, r>> /\ Len(t) > 0
    BY <2>4
  <2>12. ~it'[i].done /\ t[Len(t)][1] = "flush" =>
           it'[i].current = Length /\ t[Len(t)][2] \notin {None, Empty}
    BY <2>1, <2>11
  <2> QED
    BY <1>2, <2>3, <2>5, <2>10, <2>11, <2>12 DEF DContract
<1> QED
  BY <1>5, <1>6, DCalled

\* Every step of decode_view keeps its inductive invariant.
LEMMA DInvKept ==
  ASSUME DInv, Decoding!Next
  PROVE  DInv'
<1> USE DEF DInv
<1>1. ASSUME NEW i \in Iterators, Decoding!Begin(i)
      PROVE  DInv'
  <2>1. /\ loading = Idle /\ it[i] = Unused
        /\ it' = [it EXCEPT ![i] = DNew]
        /\ loading' = <<i, IF Opening THEN "first" ELSE "next">>
        /\ UNCHANGED <<models, codec_does, seen, calls>>
    BY <1>1 DEF Decoding!Begin, Decoding!Idle, Idle, Decoding!Unused, Unused, DNew,
       Opening, Decoding!None, None
  <2>2. it' \in [Iterators -> DIterators \cup {Unused}] /\ it'[i] = DNew
    BY <2>1, NewTyped DEF DType
  <2>3. it'[i] # Unused /\ ~it'[i].done
    BY <2>2, NewTyped, IteratorsAreUsed
  <2>4. \E op \in {"first", "next"} : loading' = <<i, op>>
    BY <2>1
  <2>5. DType'
    BY <2>1, <2>2, <2>3, <2>4 DEF DType
  <2>6. DTraced'
    BY <1>1, DBeginKeepsTrace
  <2>7. Opening' = Opening
    BY <2>1 DEF Opening, Decoding!BomAware
  <2>8. DContract(i)'
    <3>1. calls'[i] = <<>> /\ Len(calls'[i]) = 0
      BY <2>1 DEF DType
    <3>2. loading' = <<i, "first">> <=> Opening
      BY <2>1, Pairs
    <3> QED
      BY <2>7, <3>1, <3>2 DEF DContract
  <2>9. ASSUME NEW j \in Iterators, j # i
        PROVE  DContract(j)'
    <3>1. it'[j] = it[j] /\ calls'[j] = calls[j]
      BY <2>1, <2>9 DEF DType
    <3>2. loading # <<j, "first">> /\ loading' # <<j, "first">>
      BY <2>1, <2>9, NotIdle, Pairs
    <3> QED
      BY <2>1, <3>1, <3>2, DContractElsewhere
  <2> QED
    BY <2>5, <2>6, <2>8, <2>9
<1>2. ASSUME NEW i \in Iterators, Decoding!Increment(i)
      PROVE  DInv'
  <2>1. /\ loading = Idle /\ it[i] # Unused /\ ~it[i].done
        /\ loading' = <<i, "next">>
        /\ UNCHANGED <<models, it, codec_does, seen, calls>>
    BY <1>2 DEF Decoding!Increment, Decoding!Idle, Idle, Decoding!Unused, Unused
  <2>2. DType'
    BY <2>1 DEF DType
  <2>3. DTraced'
    BY <1>2, DIncrementKeepsTrace
  <2>4. ASSUME NEW j \in Iterators
        PROVE  DContract(j)'
    <3>1. loading # <<j, "first">> /\ loading' # <<j, "first">>
      BY <2>1, NotIdle, Pairs
    <3> QED
      BY <2>1, <3>1, DContractElsewhere
  <2> QED
    BY <2>2, <2>3, <2>4
<1>3. ASSUME NEW i \in Iterators, Decoding!Load(i)
      PROVE  DInv'
  <2>1. DType' /\ UNCHANGED models
    BY <1>3, DLoadKeepsType
  <2>2. DTraced'
    BY <1>3, DLoadKeepsTrace
  <2>3. DContract(i)'
    BY <1>3, DLoadKeepsContract
  <2>4. loading = <<i, "first">> \/ loading = <<i, "next">>
    BY <1>3 DEF Decoding!Load, Decoding!DecodeFirst, Decoding!DecodeOne,
       Decoding!Flush, Decoding!End
  <2>5. ASSUME NEW j \in Iterators, j # i
        PROVE  DContract(j)'
    <3>1. PICK T : DTrace(T) /\ \E k \in 1 .. Len(T) : DStandsAt(i, T, k)
      BY <2>4, NotIdle, Pairs DEF DTraced, DType
    <3>2. it'[j] = it[j]
      BY <1>3, <2>5, <3>1, DLoads DEF DType
    <3>3. calls'[j] = calls[j]
      BY <1>3, <2>5, DCalled DEF DType
    <3>4. loading # <<j, "first">>
      BY <2>4, <2>5, Pairs
    <3>5. loading' # <<j, "first">>
      <4>1. loading' = Idle \/ loading' = <<i, "next">>
        BY <1>3, DCalled
      <4> QED
        BY <2>5, <4>1, NotIdle, Pairs
    <3> QED
      BY <2>1, <3>2, <3>3, <3>4, <3>5, DContractElsewhere
  <2> QED
    BY <2>1, <2>2, <2>3, <2>5
<1>4. ASSUME NEW i \in Iterators, NEW j \in Iterators, Decoding!Copy(i, j)
      PROVE  DInv'
  <2>1. Copy(i, j)
    BY <1>4 DEF Decoding!Copy, Copy, Decoding!Idle, Idle, Decoding!Unused, Unused
  <2>2. /\ loading = Idle /\ it[i] # Unused /\ it' = [it EXCEPT ![j] = it[i]]
        /\ seen' = [seen EXCEPT ![j] = seen[i]]
        /\ calls' = [calls EXCEPT ![j] = calls[i]]
        /\ UNCHANGED <<models, loading, codec_does>>
    BY <2>1 DEF Copy
  <2>3. DType'
    BY <2>2 DEF DType
  <2>4. DTraced'
    BY <2>1, DCopyKeepsTrace
  <2>5. ASSUME NEW l \in Iterators
        PROVE  DContract(l)'
    <3>1. PICK f \in Iterators : it'[l] = it[f] /\ calls'[l] = calls[f]
      BY <2>2 DEF DType
    <3>2. loading' = Idle /\ loading # <<f, "first">> /\ loading' # <<l, "first">>
      BY <2>2, NotIdle
    <3>3. DContract(f) /\ Opening' = Opening
      BY <2>2 DEF Opening, Decoding!BomAware
    <3> QED
      BY <3>1, <3>2, <3>3 DEF DContract
  <2> QED
    BY <2>3, <2>4, <2>5
<1> QED
  BY <1>1, <1>2, <1>3, <1>4 DEF Decoding!Next, Decoding!Goes

\* The inductive invariant of decode_view holds at first.
LEMMA DInvStarts ==
  ASSUME Decoding!Init
  PROVE  DInv
<1>1. /\ it = [i \in Iterators |-> Unused] /\ loading = Idle /\ codec_does = <<>>
      /\ seen = [i \in Iterators |-> <<>>] /\ calls = [i \in Iterators |-> <<>>]
  BY DEF Decoding!Init, Decoding!NothingYet, Decoding!Unused, Unused, Decoding!Idle, Idle
<1>2. DType
  <2>1. DOMAIN codec_does = {}
    BY <1>1
  <2> QED
    BY <1>1, <2>1 DEF DType
<1>3. DTraced
  <2>1. PICK p : p = DPoint(DNew, <<>>, FALSE)
    OBVIOUS
  <2>2. p \in DPoints
    <3>1. <<>> \in Seq(Values) /\ FALSE \in BOOLEAN
      OBVIOUS
    <3> QED
      BY <2>1, <3>1, NewTyped, DPointTyped
  <2>4. PICK T : T = <<p>>
    OBVIOUS
  <2>3. DTrace(T)
    <3>1. T \in Seq(DPoints) /\ Len(T) = 1 /\ T[1] = p
      BY <2>2, <2>4
    <3>2. Ordered(T)
      BY <3>1 DEF Ordered
    <3> QED
      BY <2>1, <3>1, <3>2 DEF DTrace
  <2> QED
    BY <1>1, <2>3 DEF DTraced
<1>4. ASSUME NEW i \in Iterators
      PROVE  DContract(i)
  <2>1. it[i] = Unused /\ Len(calls[i]) = 0 /\ loading # <<i, "first">>
    BY <1>1, NotIdle
  <2> QED
    BY <2>1 DEF DContract
<1> QED
  BY <1>2, <1>3, <1>4 DEF DInv

\* An iterator that can be looked at is at the point p.
DIsAt(i, p) ==
  /\ p.it = it[i] /\ p.seen = seen[i] /\ p.done = it[i].done
  /\ p.rank = [at |-> it[i].current, owes |-> it[i].codec, pos |-> 0]
  /\ it[i].done \/ p.stands

\* Two iterators that can be looked at are at two points of one course.
LEMMA DReady ==
  ASSUME DInv
  PROVE  \E T \in Seq(DPoints) :
           /\ Ordered(T)
           /\ \A i \in Iterators : Ready(i) => \E k \in 1 .. Len(T) : DIsAt(i, T[k])
<1>1. PICK T : /\ DTrace(T)
               /\ \A i \in Iterators : it[i] # Unused =>
                    \E k \in 1 .. Len(T) : DStandsAt(i, T, k)
  BY DEF DInv, DTraced
<1>2. ASSUME NEW i \in Iterators, Ready(i)
      PROVE  \E k \in 1 .. Len(T) : DIsAt(i, T[k])
  <2>1. PICK k \in 1 .. Len(T) : DStandsAt(i, T, k)
    BY <1>1, <1>2 DEF Ready
  <2>2. PICK p : p = T[k]
    OBVIOUS
  <2>3. PICK b : b = p.stands
    OBVIOUS
  <2>4. p = DPoint(it[i], seen[i], b) /\ (it[i].done \/ p.stands)
    BY <1>2, <2>1, <2>2, <2>3 DEF DStandsAt
  <2>5. DIsAt(i, p)
    BY <2>4, DPointFields DEF DIsAt
  <2> QED
    BY <2>2, <2>5
<1> QED
  BY <1>1, <1>2 DEF DTrace

\* Iterators on one course have seen the same elements, as far as they went.
LEMMA DMultiPass == ASSUME DInv PROVE MultiPass
<1>1. PICK T \in Seq(DPoints) :
           /\ Ordered(T)
           /\ \A i \in Iterators : Ready(i) => \E k \in 1 .. Len(T) : DIsAt(i, T[k])
  BY DReady
<1>2. SUFFICES ASSUME NEW i \in Iterators, NEW j \in Iterators, Ready(i), Ready(j)
               PROVE  /\ IsPrefixOf(seen[i], seen[j]) \/ IsPrefixOf(seen[j], seen[i])
                      /\ it[i].done /\ it[j].done => seen[i] = seen[j]
  BY DEF MultiPass
<1>3. PICK k \in 1 .. Len(T) : T[k].seen = seen[i] /\ T[k].done = it[i].done
  BY <1>1, <1>2 DEF DIsAt
<1>4. PICK l \in 1 .. Len(T) : T[l].seen = seen[j] /\ T[l].done = it[j].done
  BY <1>1, <1>2 DEF DIsAt
<1>5. CASE k = l
  BY <1>3, <1>4, <1>5, PrefixOfItself DEF DInv, DType
<1>6. CASE k < l
  BY <1>1, <1>3, <1>4, <1>6 DEF Ordered, Precedes
<1>7. CASE l < k
  BY <1>1, <1>3, <1>4, <1>7 DEF Ordered, Precedes
<1> QED
  BY <1>5, <1>6, <1>7

\* Iterators at two points of a course differ in what == compares.
LEMMA DEquality == ASSUME DInv PROVE Decoding!EqualIsSameElement
<1>1. PICK T \in Seq(DPoints) :
           /\ Ordered(T)
           /\ \A i \in Iterators : Ready(i) => \E k \in 1 .. Len(T) : DIsAt(i, T[k])
  BY DReady
<1>2. ASSUME NEW i \in Iterators, NEW j \in Iterators, Ready(i), Ready(j)
      PROVE  LET same == Len(seen[i]) = Len(seen[j]) /\ it[i].done = it[j].done
             IN  /\ same => Decoding!Equal(i, j)
                 /\ Decoding!Comparable /\ Decoding!Equal(i, j) => same
  <2>1. PICK k \in 1 .. Len(T) : DIsAt(i, T[k])
    BY <1>1, <1>2
  <2>2. PICK l \in 1 .. Len(T) : DIsAt(j, T[l])
    BY <1>1, <1>2
  <2>3. /\ T[k].seen = seen[i] /\ T[k].done = it[i].done /\ T[k].it = it[i]
        /\ T[k].rank = [at |-> it[i].current, owes |-> it[i].codec, pos |-> 0]
        /\ it[i].done \/ T[k].stands
        /\ T[l].seen = seen[j] /\ T[l].done = it[j].done /\ T[l].it = it[j]
        /\ T[l].rank = [at |-> it[j].current, owes |-> it[j].codec, pos |-> 0]
        /\ it[j].done \/ T[l].stands
    BY <2>1, <2>2 DEF DIsAt
  <2>4. /\ it[i].done \in BOOLEAN /\ it[j].done \in BOOLEAN
        /\ it[i].current \in Nat /\ it[j].current \in Nat
        /\ it[i].codec \in Nat /\ it[j].codec \in Nat
        /\ Len(seen[i]) \in Nat /\ Len(seen[j]) \in Nat
    <3>1. it[i] \in DIterators /\ it[j] \in DIterators
      BY <1>2 DEF DInv, DType, Ready
    <3> QED
      BY <3>1, ViewAssumption, SMTT(30) DEF DIterators, Codecs, DInv, DType
  <2>5. CASE k = l
    BY <2>3, <2>4, <2>5 DEF Decoding!Equal
  <2>6. CASE k < l
    <3>1. Precedes(T[k], T[l])
      BY <1>1, <2>6 DEF Ordered
    <3>2. ~it[i].done /\ (Decoding!Comparable => ~Decoding!Equal(i, j))
      BY <2>3, <2>4, <3>1, SMTT(30) DEF Precedes, Before, Decoding!Equal
    <3>3. ~it[j].done => Len(seen[i]) < Len(seen[j])
      BY <2>3, <3>1 DEF Precedes
    <3> QED
      BY <2>4, <3>2, <3>3, SMTT(30)
  <2>7. CASE l < k
    <3>1. Precedes(T[l], T[k])
      BY <1>1, <2>7 DEF Ordered
    <3>2. ~it[j].done /\ (Decoding!Comparable => ~Decoding!Equal(i, j))
      BY <2>3, <2>4, <3>1, SMTT(30) DEF Precedes, Before, Decoding!Equal
    <3>3. ~it[i].done => Len(seen[j]) < Len(seen[i])
      BY <2>3, <3>1 DEF Precedes
    <3> QED
      BY <2>4, <3>2, <3>3
  <2> QED
    BY <2>5, <2>6, <2>7
<1> QED
  BY <1>2 DEF Decoding!EqualIsSameElement, Decoding!Ready, Ready,
     Decoding!Unused, Unused, Decoding!Idle, Idle

\* The types and the contract are parts of the invariant.
LEMMA DHolds ==
  ASSUME DInv
  PROVE  Decoding!TypeOK /\ Decoding!CodecContract
<1>1. Decoding!TypeOK
  BY DEF DInv, DType, DIterators, Decoding!TypeOK, Decoding!Unused, Unused,
     Decoding!Idle, Idle, Decoding!None, None, Decoding!Codecs, Codecs
<1>2. Decoding!CodecContract
  BY DEF DInv, DContract, Opening, Decoding!CodecContract, Decoding!None, None,
     Decoding!Empty, Empty
<1> QED
  BY <1>1, <1>2

-----------------------------------------------------------------------------
\* What an element of encode_view can be: a byte, or an error.
Elements == Values \cup Encoding!Errors \cup {"?"}

\* The iterators of encode_view, and the points they are at.
EIterators ==
  [kind : {"iterator"}, current : 0 .. Length, codec : Codecs,
   buf : CodecBytes \cup {<<>>, <<"?">>}, pos : Nat,
   error : Encoding!Errors \cup {None}, done : BOOLEAN]

\* What begin() makes before it loads an element.
ENew == Encoding!Iterator(0, 0, <<>>, 0, None, FALSE)

EPoints == Points(EIterators, Elements)

ERank(x) == [at |-> x.current, owes |-> x.codec, pos |-> x.pos]

EPoint(x, s, stands) ==
  [it |-> x, seen |-> s, stands |-> stands, done |-> x.done, rank |-> ERank(x)]

\* The point at which an iterator y comes to stand on an element, after s.
EStand(y, s) == EPoint(y, Append(s, Encoding!Element(y)), TRUE)

\* operator++ on x calls load().
ELoads(x) == x.pos + 1 >= Len(x.buf)

\* load() reports the next code unit instead of encoding it.
EReports(x) ==
  x.current < Length /\ mode = "report" /\ base[x.current + 1] \in IllFormed

\* The situation in which load() on x asks the codec.
EKey(x) ==
  IF x.current < Length
  THEN <<"encode_one", Encoding!Validate(base[x.current + 1]), x.codec>>
  ELSE <<"flush", None, x.codec>>

\* The point after one at x with the elements s, when the codec does o.
EAfter(x, s, o) ==
  IF x.current < Length
  THEN EStand(Encoding!Use([x EXCEPT !.current = @ + 1, !.codec = o.owes], o), s)
  ELSE IF Encoding!OwesNothing(o)
  THEN EPoint([x EXCEPT !.codec = o.owes, !.done = TRUE], s, FALSE)
  ELSE EStand(Encoding!Use([x EXCEPT !.codec = o.owes], o), s)

\* q is the point after one at x with the elements s.
EAgreed(x, s, q) ==
  IF ~ELoads(x) THEN q = EStand([x EXCEPT !.pos = @ + 1], s)
  ELSE IF EReports(x)
  THEN q = EStand(Encoding!Failure([x EXCEPT !.current = @ + 1], base[x.current + 1]), s)
  ELSE IF x.current = Length /\ ~Encoding!Flushable
  THEN q = EPoint([x EXCEPT !.done = TRUE], s, FALSE)
  ELSE /\ EKey(x) \in DOMAIN codec_does
       /\ \E o : o = codec_does[EKey(x)] /\ q = EAfter(x, s, o)

\* T is a course of encode_view's iterators.
ETrace(T) ==
  /\ T \in Seq(EPoints)
  /\ Len(T) >= 1
  /\ T[1] = EPoint(ENew, <<>>, FALSE)
  /\ \A k \in 1 .. Len(T) - 1 : EAgreed(T[k].it, T[k].seen, T[k + 1])
  /\ Ordered(T)

\* Iterator i is at the point p.
EIsAt(i, p) ==
  /\ p = EPoint(it[i], seen[i], p.stands)
  /\ it[i].done \/ p.stands

\* Every iterator is on one course.
ETraced ==
  \E T : /\ ETrace(T)
         /\ \A i \in Iterators : it[i] # Unused =>
              \E k \in 1 .. Len(T) : EIsAt(i, T[k])

ECalls ==
  {"none", "encode_one", "flush"}
    \X (Scalars \cup IllFormed \cup {Encoding!Replacement, None})
    \X [engaged : BOOLEAN, owes : Codecs, error : BOOLEAN, bytes : CodecBytes \cup {<<>>}]

\* The types, the place in the buffer, and that an unused iterator has done
\* nothing.
EType ==
  /\ mode \in {"replacement", "report"}
  /\ base \in [1 .. Length -> Scalars \cup IllFormed]
  /\ it \in [Iterators -> EIterators \cup {Unused}]
  /\ \A i \in Iterators : it[i] # Unused /\ ~it[i].done => it[i].pos < Len(it[i].buf)
  /\ seen \in [Iterators -> Seq(Elements)]
  /\ calls \in [Iterators -> Seq(ECalls)]
  /\ loading = Idle
  /\ \A i \in Iterators : it[i] = Unused => seen[i] = <<>> /\ calls[i] = <<>>

\* No iterator of encode_view is the unused one.
LEMMA EIteratorsAreUsed == \A x \in EIterators : x # Unused
  BY DEF EIterators, Unused

\* The bytes an iterator holds are a sequence, with a length.
LEMMA BuffersAreSequences ==
  \A b \in CodecBytes \cup {<<>>, <<"?">>} :
    /\ b \in Seq(Values \cup {"?"}) /\ Len(b) \in Nat
    /\ b = <<>> => Len(b) = 0
    /\ b # <<>> => Len(b) > 0
<1>1. ASSUME NEW b \in CodecBytes \cup {<<>>, <<"?">>}
      PROVE  b \in Seq(Values \cup {"?"})
  <2>1. CASE b \in CodecBytes
    <3>1. b \in Seq(Values)
      BY <2>1, EncodeAssumption
    <3> QED
      BY <3>1
  <2>2. CASE b = <<"?">>
    BY <2>2
  <2>3. CASE b = <<>>
    BY <2>3
  <2> QED
    BY <2>1, <2>2, <2>3
<1> QED
  BY <1>1

\* What the iterator begin() makes holds.
LEMMA ENewFields ==
  /\ ENew.current = 0 /\ ENew.codec = 0 /\ ENew.buf = <<>> /\ ENew.pos = 0
  /\ ENew.done = FALSE /\ ENew.kind = "iterator" /\ ENew.error = None
  /\ ENew = [kind |-> "iterator", current |-> 0, codec |-> 0, buf |-> <<>>, pos |-> 0,
             error |-> None, done |-> FALSE]
  BY DEF ENew, Encoding!Iterator

\* The iterator begin() makes has its type.
LEMMA EAll == ENew \in EIterators
  BY ENewFields, ViewAssumption DEF EIterators, Codecs

\* The types of an iterator's parts.
LEMMA EFields ==
  \A x \in EIterators :
    /\ x.current \in 0 .. Length /\ x.current \in Nat
    /\ x.codec \in Codecs /\ x.codec \in Nat
    /\ x.pos \in Nat /\ x.done \in BOOLEAN
  BY ViewAssumption DEF EIterators, Codecs

\* Points of encode_view have their type.
LEMMA EPointTyped ==
  \A x \in EIterators, s \in Seq(Elements), b \in BOOLEAN : EPoint(x, s, b) \in EPoints
<1>1. \A x \in EIterators : ERank(x) \in Ranks
  BY EFields DEF Ranks, ERank
<1> QED
  BY <1>1, EFields DEF EPoint, EPoints, Points

\* What a point of encode_view is made of.
LEMMA EPointFields ==
  \A p, x, s, b : p = EPoint(x, s, b) =>
    /\ p.it = x /\ p.seen = s /\ p.stands = b /\ p.done = x.done
    /\ p.rank = ERank(x)
  BY DEF EPoint

\* What an iterator stands on is an element.
LEMMA ElementTyped ==
  ASSUME EType, NEW y \in EIterators, y.pos < Len(y.buf)
  PROVE  Encoding!Element(y) \in Elements
<1>1. y.buf \in Seq(Values \cup {"?"}) /\ y.pos \in Nat /\ Len(y.buf) \in Nat
  BY BuffersAreSequences DEF EIterators
<1>2. y.buf[y.pos + 1] \in Values \cup {"?"}
  BY <1>1
<1>3. y.error \in Encoding!Errors \cup {None}
  BY DEF EIterators
<1> QED
  BY <1>2, <1>3 DEF Encoding!Element, Elements, Encoding!None, None

\* The step takes iterator i from p, where it is x with the elements s, to q.
EMoves(i, x, s, p, q) ==
  /\ q \in EPoints /\ q = EPoint(it'[i], seen'[i], q.stands)
  /\ Precedes(p, q)
  /\ q.done \/ q.stands
  /\ it' = [it EXCEPT ![i] = q.it] /\ seen' = [seen EXCEPT ![i] = q.seen]
  /\ q.it \in EIterators /\ q.seen \in Seq(Elements)
  /\ ~q.it.done => q.it.pos < Len(q.it.buf)

\* An iterator that comes to stand on an element is at a later point.
LEMMA EStands ==
  ASSUME EType, NEW i \in Iterators, NEW x, NEW y \in EIterators, NEW p, NEW s, NEW b, NEW q,
         p = EPoint(x, s, b), s = seen[i], x.done = FALSE,
         Before(ERank(x), ERank(y)),
         y.pos < Len(y.buf), y.done = FALSE, Encoding!StandsOn(i, y), q = EStand(y, s)
  PROVE  EMoves(i, x, s, p, q)
<1>1. PICK e : e = Encoding!Element(y)
  OBVIOUS
<1>2. e \in Elements /\ s \in Seq(Elements)
  BY <1>1, ElementTyped DEF EType
<1>3. PICK t : t = Append(s, e)
  OBVIOUS
<1>4. t \in Seq(Elements) /\ IsPrefixOf(s, t) /\ Len(s) < Len(t)
  BY <1>2, <1>3, PrefixOfAppended
<1>5. q = EPoint(y, t, TRUE)
  BY <1>1, <1>3 DEF EStand
<1>6. /\ q.it = y /\ q.seen = t /\ q.stands = TRUE /\ q.done = FALSE
      /\ q.rank = ERank(y)
      /\ p.seen = s /\ p.done = FALSE
      /\ p.rank = ERank(x)
  BY <1>5 DEF EPoint
<1>7. Precedes(p, q)
  BY <1>4, <1>6 DEF Precedes
<1>8. q \in EPoints
  <2>1. TRUE \in BOOLEAN
    OBVIOUS
  <2> QED
    BY <2>1, <1>4, <1>5, EAll, EPointTyped
<1>9. it' = [it EXCEPT ![i] = y] /\ seen' = [seen EXCEPT ![i] = t]
  BY <1>1, <1>3 DEF Encoding!StandsOn
<1>10. it'[i] = y /\ seen'[i] = t
  BY <1>9 DEF EType
<1>11. q = EPoint(it'[i], seen'[i], q.stands)
  BY <1>5, <1>6, <1>10
<1> QED
  BY <1>4, <1>6, <1>7, <1>8, <1>9, <1>11 DEF EMoves

\* operator++ at a byte that is not the last.
LEMMA ENextByte ==
  ASSUME EType, NEW i \in Iterators, NEW x \in EIterators, NEW p, NEW s, NEW b,
         p = EPoint(x, s, b), s = seen[i], x = it[i], Encoding!NextByte(i)
  PROVE  /\ \E q : EMoves(i, x, s, p, q) /\ EAgreed(x, s, q)'
         /\ Grows
<1>1. /\ x # Unused /\ x.done = FALSE /\ x.pos + 1 < Len(x.buf)
      /\ UNCHANGED <<mode, base, models, loading, codec_does, calls>>
  BY EFields DEF Encoding!NextByte, Encoding!Unused, Unused, Encoding!own
<1>2. PICK y : y = [x EXCEPT !.pos = @ + 1]
  OBVIOUS
<1>3. x \in EIterators
  BY <1>1 DEF EType
<1>4. /\ y \in EIterators /\ y.done = FALSE /\ y.pos = x.pos + 1 /\ y.buf = x.buf
      /\ y.current = x.current /\ y.codec = x.codec
  BY <1>1, <1>2, <1>3 DEF EIterators
<1>5. Encoding!StandsOn(i, y)
  BY <1>2 DEF Encoding!NextByte
<1>6. Before(ERank(x), ERank(y))
  BY <1>4, EFields DEF Before, ERank
<1>7. PICK q : q = EStand(y, s)
  OBVIOUS
<1>10. y.pos < Len(y.buf) /\ x.done = FALSE
  BY <1>1, <1>4
<1>8. EMoves(i, x, s, p, q)
  BY <1>4, <1>5, <1>6, <1>7, <1>10, EStands
<1>9. EAgreed(x, s, q)'
  <2>1. ~ELoads(x)
    BY <1>1, BuffersAreSequences, <1>3, EFields DEF ELoads, EIterators
  <2>2. EStand(y, s)' = EStand(y, s)
    BY <1>1 DEF EStand, Encoding!Element
  <2> QED
    BY <1>2, <1>7, <2>1, <2>2 DEF EAgreed
<1> QED
  BY <1>1, <1>8, <1>9 DEF Grows

\* The iterator that load() is called on.
LEMMA ELoading ==
  ASSUME EType, NEW i \in Iterators, NEW x \in Encoding!Loading(i)
  PROVE  /\ x \in EIterators /\ x.done = FALSE /\ ELoads(x)
         /\ it[i] = Unused => x = ENew
         /\ it[i] # Unused => x = it[i]
<1>1. CASE it[i] = Unused
  <2>1. x = ENew
    BY <1>1 DEF Encoding!Loading, Encoding!Unused, Unused, ENew, Encoding!None, None
  <2> QED
    BY <1>1, <2>1, EAll, ENewFields DEF ELoads
<1>2. CASE it[i] # Unused
  <2>1. x = it[i] /\ ~x.done /\ x.pos + 1 = Len(x.buf)
    BY <1>2 DEF Encoding!Loading, Encoding!Unused, Unused
  <2>2. x \in EIterators
    BY <1>2, <2>1 DEF EType
  <2>3. x \in EIterators /\ x.done = FALSE
    BY <2>1, <2>2, EAll, EFields
  <2>4. ELoads(x)
    BY <2>1, <2>2, BuffersAreSequences DEF ELoads, EIterators
  <2> QED
    BY <1>2, <2>1, <2>3, <2>4
<1> QED
  BY <1>1, <1>2


\* An ill-formed code unit of a report view is the element.
LEMMA EReported ==
  ASSUME EType, NEW i \in Iterators, NEW x \in Encoding!Loading(i), NEW p, NEW s, NEW b,
         p = EPoint(x, s, b), s = seen[i], EReports(x),
         Encoding!StandsOn(i, Encoding!Failure([x EXCEPT !.current = @ + 1], base[x.current + 1])),
         UNCHANGED <<mode, base, models, codec_does>>
  PROVE  /\ \E q : EMoves(i, x, s, p, q) /\ EAgreed(x, s, q)'
         /\ Grows
<1>1. x \in EIterators /\ x.done = FALSE /\ ELoads(x)
  BY ELoading
<1>2. PICK y : y = Encoding!Failure([x EXCEPT !.current = @ + 1], base[x.current + 1])
  OBVIOUS
<1>3. base[x.current + 1] \in IllFormed
  BY DEF EReports
<1>4. /\ y = [kind |-> "iterator", current |-> x.current + 1, codec |-> x.codec,
              buf |-> <<"?">>, pos |-> 0, error |-> base[x.current + 1], done |-> FALSE]
  BY <1>1, <1>2 DEF Encoding!Failure, EIterators
<1>5. y \in EIterators /\ y.done = FALSE /\ y.pos < Len(y.buf)
  BY <1>1, <1>3, <1>4, EFields, ViewAssumption DEF EReports, EIterators, Encoding!Errors
<1>6. Before(ERank(x), ERank(y))
  BY <1>1, <1>4, EFields DEF Before, ERank
<1>7. Encoding!StandsOn(i, y)
  BY <1>2
<1>8. PICK q : q = EStand(y, s)
  OBVIOUS
<1>9. EMoves(i, x, s, p, q)
  BY <1>1, <1>5, <1>6, <1>7, <1>8, EStands
<1>10. EAgreed(x, s, q)'
  <2>1. ELoads(x)' /\ EReports(x)'
    BY <1>1 DEF ELoads, EReports
  <2>2. EStand(y, s)' = EStand(y, s)
    BY DEF EStand, Encoding!Element
  <2>3. y = Encoding!Failure([x EXCEPT !.current = @ + 1], base[x.current + 1])'
    BY <1>2 DEF Encoding!Failure
  <2> QED
    BY <1>8, <2>1, <2>2, <2>3 DEF EAgreed
<1> QED
  BY <1>9, <1>10 DEF Grows

\* What becomes of a result that is no empty one.
LEMMA EUsed ==
  ASSUME EType, NEW x \in EIterators, NEW o, x.done = FALSE, o.error \in BOOLEAN,
         o.bytes \in CodecBytes, o.error \/ o.bytes # <<>>
  PROVE  /\ Encoding!Use(x, o) \in EIterators
         /\ Encoding!Use(x, o).pos = 0 /\ Encoding!Use(x, o).done = FALSE
         /\ 0 < Len(Encoding!Use(x, o).buf)
         /\ Encoding!Use(x, o).current = x.current /\ Encoding!Use(x, o).codec = x.codec
<1>1. CASE o.error /\ (mode = "report" \/ o.bytes = <<>>)
  <2>1. PICK y : y = Encoding!Failure(x, "unmapped_codepoint")
    OBVIOUS
  <2>2. y = [kind |-> "iterator", current |-> x.current, codec |-> x.codec,
             buf |-> <<"?">>, pos |-> 0, error |-> "unmapped_codepoint", done |-> FALSE]
    BY <2>1 DEF Encoding!Failure, EIterators
  <2>3. y \in EIterators
    BY <2>2, EFields DEF EIterators, Encoding!Errors
  <2>4. Encoding!Use(x, o) = y
    BY <1>1, <2>1 DEF Encoding!Use
  <2> QED
    BY <2>2, <2>3, <2>4
<1>2. CASE ~(o.error /\ (mode = "report" \/ o.bytes = <<>>))
  <2>1. PICK y : y = [x EXCEPT !.buf = o.bytes, !.pos = 0, !.error = None]
    OBVIOUS
  <2>2. y = [kind |-> "iterator", current |-> x.current, codec |-> x.codec,
             buf |-> o.bytes, pos |-> 0, error |-> None, done |-> FALSE]
    BY <2>1 DEF EIterators
  <2>3. y \in EIterators
    BY <2>2, EFields DEF EIterators
  <2>4. Encoding!Use(x, o) = y
    BY <1>2, <2>1 DEF Encoding!Use, Encoding!None, None
  <2>5. 0 < Len(o.bytes)
    BY <1>2, BuffersAreSequences
  <2> QED
    BY <2>2, <2>3, <2>4, <2>5
<1> QED
  BY <1>1, <1>2

\* A code unit is encoded, and the iterator stands on the first byte of it.
LEMMA EEncoded ==
  ASSUME EType, NEW i \in Iterators, NEW x \in Encoding!Loading(i), NEW p, NEW s, NEW b,
         p = EPoint(x, s, b), s = seen[i], ~EReports(x), x.current < Length,
         NEW o \in Encoding!EncodeOutcomes,
         CodecDoes(<<"encode_one", Encoding!Validate(base[x.current + 1]), x.codec>>,
                   Encoding!EncodeOutcomes, o),
         Encoding!StandsOn(i, Encoding!Use([x EXCEPT !.current = @ + 1, !.codec = o.owes], o)),
         UNCHANGED <<mode, base, models>>
  PROVE  /\ \E q : EMoves(i, x, s, p, q) /\ EAgreed(x, s, q)'
         /\ Grows
<1>1. x \in EIterators /\ x.done = FALSE /\ ELoads(x)
  BY ELoading
<1>2. PICK z : z = [x EXCEPT !.current = @ + 1, !.codec = o.owes]
  OBVIOUS
<1>3. /\ o.owes \in Codecs /\ o.error \in BOOLEAN /\ o.bytes \in CodecBytes
      /\ o.error \/ o.bytes # <<>>
  BY DEF Encoding!EncodeOutcomes, Encoding!Results, Encoding!Codecs, Codecs
<1>4. /\ z \in EIterators /\ z.done = FALSE
      /\ z.current = x.current + 1 /\ z.codec = o.owes
  <2>1. z = [kind |-> x.kind, current |-> x.current + 1, codec |-> o.owes, buf |-> x.buf,
             pos |-> x.pos, error |-> x.error, done |-> x.done]
    BY <1>1, <1>2 DEF EIterators
  <2>2. x.current + 1 \in 0 .. Length
    BY <1>1, EFields, ViewAssumption
  <2> QED
    BY <1>1, <1>3, <2>1, <2>2 DEF EIterators
<1>5. PICK y : y = Encoding!Use(z, o)
  OBVIOUS
<1>6. /\ y \in EIterators /\ y.done = FALSE /\ y.pos = 0 /\ y.pos < Len(y.buf)
      /\ y.current = x.current + 1 /\ y.codec = o.owes
  BY <1>3, <1>4, <1>5, EUsed
<1>7. Before(ERank(x), ERank(y))
  BY <1>1, <1>6, EFields DEF Before, ERank
<1>8. Encoding!StandsOn(i, y)
  BY <1>2, <1>5
<1>9. PICK q : q = EStand(y, s)
  OBVIOUS
<1>10. EMoves(i, x, s, p, q)
  BY <1>1, <1>6, <1>7, <1>8, <1>9, EStands
<1>11. PICK key : key = EKey(x)
  OBVIOUS
<1>12. key \in DOMAIN codec_does' /\ codec_does'[key] = o /\ Grows
  BY <1>11, CodecGrows DEF EKey
<1>13. EAgreed(x, s, q)'
  <2>1. ELoads(x)' /\ ~EReports(x)' /\ x.current # Length
    BY <1>1, EFields, ViewAssumption DEF ELoads, EReports
  <2>2. EKey(x)' = key
    BY <1>11 DEF EKey, Encoding!Validate
  <2>3. EStand(y, s)' = EStand(y, s)
    BY DEF EStand, Encoding!Element
  <2>4. Encoding!Use(z, o)' = y
    BY <1>5 DEF Encoding!Use, Encoding!Failure
  <2>5. q = EAfter(x, s, o)'
    BY <1>2, <1>9, <2>3, <2>4 DEF EAfter
  <2>6. \E u : u = codec_does'[key] /\ q = EAfter(x, s, u)'
    BY <1>12, <2>5
  <2> QED
    BY <1>12, <2>1, <2>2, <2>6 DEF EAgreed
<1> QED
  BY <1>10, <1>12, <1>13


\* What an outcome of a flush can be.
LEMMA EFlushOutcome ==
  ASSUME NEW c \in Codecs, NEW o \in Encoding!FlushOutcomes(c)
  PROVE  /\ o.owes \in Codecs /\ o.owes \in Nat
         /\ o.engaged \in BOOLEAN /\ o.error \in BOOLEAN
         /\ o.bytes \in CodecBytes \cup {<<>>}
         /\ o \in [engaged : BOOLEAN, owes : Codecs, error : BOOLEAN,
                   bytes : CodecBytes \cup {<<>>}]
         /\ ~Encoding!OwesNothing(o) =>
              /\ o.owes < c /\ o.bytes \in CodecBytes
              /\ o.error \/ o.bytes # <<>>
<1>1. c \in Nat /\ c <= MaxOwed
  BY ViewAssumption DEF Codecs
<1>2. CASE o \in Encoding!Results(0 .. c - 1)
  <2>1. /\ o.engaged = TRUE /\ o.owes \in 0 .. c - 1 /\ o.error \in BOOLEAN
        /\ o.bytes \in CodecBytes
        /\ o = [engaged |-> o.engaged, owes |-> o.owes, error |-> o.error, bytes |-> o.bytes]
    BY <1>2 DEF Encoding!Results
  <2>2. o.owes \in Codecs /\ o.owes < c
    BY <1>1, <2>1, ViewAssumption DEF Codecs
  <2>3. o \in [engaged : BOOLEAN, owes : Codecs, error : BOOLEAN,
               bytes : CodecBytes \cup {<<>>}]
    BY <2>1, <2>2
  <2>4. o.owes \in Nat
    BY <2>2, ViewAssumption DEF Codecs
  <2>5. ~Encoding!OwesNothing(o) => o.error \/ o.bytes # <<>>
    BY <2>1 DEF Encoding!OwesNothing
  <2> QED
    BY <2>1, <2>2, <2>3, <2>4, <2>5
<1>3. CASE o = Encoding!Nullopt(c)
  <2>1. o = [engaged |-> FALSE, owes |-> c, error |-> FALSE, bytes |-> <<>>]
    BY <1>3 DEF Encoding!Nullopt
  <2> QED
    BY <1>1, <2>1 DEF Encoding!OwesNothing
<1>4. CASE o = [Encoding!Nullopt(c) EXCEPT !.engaged = TRUE]
  <2>1. o = [engaged |-> TRUE, owes |-> c, error |-> FALSE, bytes |-> <<>>]
    BY <1>4 DEF Encoding!Nullopt
  <2> QED
    BY <1>1, <2>1 DEF Encoding!OwesNothing
<1> QED
  BY <1>2, <1>3, <1>4 DEF Encoding!FlushOutcomes

\* The end of the view, where the iterator has no further element.
LEMMA EStops ==
  ASSUME EType, NEW i \in Iterators, NEW x \in EIterators, NEW p, NEW s, NEW b, NEW q,
         p = EPoint(x, s, b), s = seen[i], x.done = FALSE,
         NEW o \in Codecs, NEW z, z = [x EXCEPT !.codec = o],
         Encoding!Stop(i, z), q = EPoint([z EXCEPT !.done = TRUE], s, FALSE)
  PROVE  EMoves(i, x, s, p, q)
<1>1. PICK y : y = [z EXCEPT !.done = TRUE]
  OBVIOUS
<1>2. y \in EIterators /\ y.done = TRUE
  BY <1>1 DEF EIterators
<1>3. it' = [it EXCEPT ![i] = y] /\ seen' = [seen EXCEPT ![i] = s] /\ s \in Seq(Elements)
  BY <1>1 DEF Encoding!Stop, EType
<1>4. it'[i] = y /\ seen'[i] = s
  BY <1>3 DEF EType
<1>5. q = EPoint(y, s, FALSE)
  BY <1>1
<1>6. /\ q.it = y /\ q.seen = s /\ q.stands = FALSE /\ q.done = TRUE
      /\ p.seen = s /\ p.done = FALSE
  BY <1>2, <1>5 DEF EPoint
<1>7. q \in EPoints
  <2>1. FALSE \in BOOLEAN
    OBVIOUS
  <2> QED
    BY <2>1, <1>2, <1>3, <1>5, EPointTyped
<1>8. Precedes(p, q)
  BY <1>3, <1>6, PrefixOfItself DEF Precedes
<1>9. q = EPoint(it'[i], seen'[i], q.stands)
  BY <1>4, <1>5, <1>6
<1> QED
  BY <1>2, <1>3, <1>6, <1>7, <1>8, <1>9 DEF EMoves

\* The codec is flushed at the end of the range.
LEMMA EFlushed ==
  ASSUME EType, NEW i \in Iterators, NEW x \in Encoding!Loading(i), NEW p, NEW s, NEW b,
         p = EPoint(x, s, b), s = seen[i], x.current = Length, Encoding!Flushable,
         NEW o \in Encoding!FlushOutcomes(x.codec),
         CodecDoes(<<"flush", None, x.codec>>, Encoding!FlushOutcomes(x.codec), o),
         IF Encoding!OwesNothing(o) THEN Encoding!Stop(i, [x EXCEPT !.codec = o.owes])
         ELSE Encoding!StandsOn(i, Encoding!Use([x EXCEPT !.codec = o.owes], o)),
         UNCHANGED <<mode, base, models>>
  PROVE  /\ \E q : EMoves(i, x, s, p, q) /\ EAgreed(x, s, q)'
         /\ Grows
<1>1. x \in EIterators /\ x.done = FALSE /\ ELoads(x) /\ x.codec \in Codecs
  BY ELoading, EFields
<1>2. PICK z : z = [x EXCEPT !.codec = o.owes]
  OBVIOUS
<1>3. /\ o.owes \in Codecs /\ o.error \in BOOLEAN
      /\ ~Encoding!OwesNothing(o) =>
           /\ o.owes < x.codec /\ o.bytes \in CodecBytes
           /\ o.error \/ o.bytes # <<>>
  BY <1>1, EFlushOutcome
<1>4. /\ z \in EIterators /\ z.done = FALSE
      /\ z.current = x.current /\ z.codec = o.owes
  BY <1>1, <1>2, <1>3, EFields DEF EIterators
<1>5. PICK key : key = EKey(x)
  OBVIOUS
<1>6. key \in DOMAIN codec_does' /\ codec_does'[key] = o /\ Grows
  <2>1. key = <<"flush", None, x.codec>>
    BY <1>5, ViewAssumption DEF EKey
  <2> QED
    BY <2>1, CodecGrows
<1>7. PICK q : q = EAfter(x, s, o)
  OBVIOUS
<1>8. q = EAfter(x, s, o)' /\ EMoves(i, x, s, p, q)
  <2>1. CASE Encoding!OwesNothing(o)
    <3>1. q = EPoint([z EXCEPT !.done = TRUE], s, FALSE)
      <4>1. [z EXCEPT !.done = TRUE] = [x EXCEPT !.codec = o.owes, !.done = TRUE]
        BY <1>1, <1>2 DEF EIterators
      <4>2. q = EPoint([x EXCEPT !.codec = o.owes, !.done = TRUE], s, FALSE)
        BY <1>7, <2>1, ViewAssumption DEF EAfter, EPoint, Encoding!OwesNothing
      <4> QED
        BY <4>1, <4>2
    <3>2. q = EAfter(x, s, o)'
      BY <1>7, <2>1, ViewAssumption DEF EAfter, EPoint, Encoding!OwesNothing
    <3>3. Encoding!Stop(i, z)
      BY <1>2, <2>1
    <3> QED
      BY <1>1, <1>2, <1>3, <3>1, <3>2, <3>3, EStops
  <2>2. CASE ~Encoding!OwesNothing(o)
    <3>1. PICK y : y = Encoding!Use(z, o)
      OBVIOUS
    <3>2. /\ y \in EIterators /\ y.done = FALSE /\ y.pos = 0 /\ y.pos < Len(y.buf)
          /\ y.current = x.current /\ y.codec = o.owes
      BY <1>3, <1>4, <2>2, <3>1, EUsed
    <3>3. Before(ERank(x), ERank(y))
      BY <1>1, <1>3, <2>2, <3>2, EFields DEF Before, ERank
    <3>4. Encoding!StandsOn(i, y)
      BY <1>2, <2>2, <3>1
    <3>5. q = EStand(y, s)
      BY <1>2, <1>7, <2>2, <3>1, ViewAssumption DEF EAfter
    <3>6. EMoves(i, x, s, p, q)
      BY <1>1, <3>2, <3>3, <3>4, <3>5, EStands
    <3>7. EStand(y, s)' = EStand(y, s)
      BY DEF EStand, Encoding!Element
    <3>8. Encoding!Use(z, o)' = y
      BY <3>1 DEF Encoding!Use, Encoding!Failure
    <3>9. q = EAfter(x, s, o)'
      BY <1>2, <2>2, <3>5, <3>7, <3>8, ViewAssumption DEF EAfter
    <3> QED
      BY <3>6, <3>9
  <2> QED
    BY <2>1, <2>2
<1>9. EAgreed(x, s, q)'
  <2>1. ELoads(x)' /\ ~EReports(x)' /\ Encoding!Flushable'
    BY <1>1, ViewAssumption DEF ELoads, EReports, Encoding!Flushable
  <2>2. EKey(x)' = key
    BY <1>5 DEF EKey, Encoding!Validate
  <2>3. \E u : u = codec_does'[key] /\ q = EAfter(x, s, u)'
    BY <1>6, <1>8
  <2> QED
    BY <1>6, <2>1, <2>2, <2>3 DEF EAgreed
<1> QED
  BY <1>6, <1>8, <1>9

\* A codec that is not flushed ends the view with the range.
LEMMA EEnded ==
  ASSUME EType, NEW i \in Iterators, NEW x \in Encoding!Loading(i), NEW p, NEW s, NEW b,
         p = EPoint(x, s, b), s = seen[i], x.current = Length, ~Encoding!Flushable,
         Encoding!Stop(i, x), UNCHANGED <<mode, base, models, codec_does>>
  PROVE  /\ \E q : EMoves(i, x, s, p, q) /\ EAgreed(x, s, q)'
         /\ Grows
<1>1. x \in EIterators /\ x.done = FALSE /\ ELoads(x) /\ x.codec \in Codecs
  BY ELoading, EFields
<1>2. x = [x EXCEPT !.codec = x.codec]
  BY <1>1 DEF EIterators
<1>3. PICK q : q = EPoint([x EXCEPT !.done = TRUE], s, FALSE)
  OBVIOUS
<1>4. EMoves(i, x, s, p, q)
  BY <1>1, <1>2, <1>3, EStops
<1>5. EAgreed(x, s, q)'
  <2>1. ELoads(x)' /\ ~EReports(x)' /\ ~Encoding!Flushable'
    BY <1>1, ViewAssumption DEF ELoads, EReports, Encoding!Flushable
  <2> QED
    BY <1>3, <2>1 DEF EAgreed
<1> QED
  BY <1>4, <1>5 DEF Grows


\* Where iterator i is on the course T: at its beginning until begin() has
\* loaded an element.
EPlaced(i, T, k) ==
  IF it[i] = Unused THEN k = 1 ELSE EIsAt(i, T[k])

\* load() and operator++ take iterator i from the k-th point to the next one.
LEMMA EStep ==
  ASSUME EType, NEW i \in Iterators, Encoding!Load(i) \/ Encoding!NextByte(i),
         NEW T, ETrace(T), NEW k \in 1 .. Len(T), EPlaced(i, T, k)
  PROVE  /\ \E q : EMoves(i, T[k].it, T[k].seen, T[k], q) /\ EAgreed(T[k].it, T[k].seen, q)'
         /\ Grows
         /\ UNCHANGED <<models, mode, base, loading>>
<1>1. PICK p : p = T[k]
  OBVIOUS
<1>2. PICK x : x = IF it[i] = Unused THEN ENew ELSE it[i]
  OBVIOUS
<1>3. PICK s : s = seen[i]
  OBVIOUS
<1>4. \E b : p = EPoint(x, s, b)
  BY <1>1, <1>2, <1>3 DEF EPlaced, EIsAt, ETrace, EType
<1>5. PICK b : p = EPoint(x, s, b)
  BY <1>4
<1>6. p.it = x /\ p.seen = s
  BY <1>5, EPointFields
<1>7. UNCHANGED <<models, mode, base, loading>>
  BY DEF Encoding!Load, Encoding!NextByte, Encoding!LoadIllFormed, Encoding!LoadScalar,
     Encoding!LoadFlush, Encoding!LoadEnd, Encoding!own
<1>8. /\ \E q : EMoves(i, x, s, p, q) /\ EAgreed(x, s, q)'
      /\ Grows
  <2>1. CASE Encoding!LoadIllFormed(i)
    <3>1. PICK y \in Encoding!Loading(i) :
            /\ y.current < Length /\ mode = "report" /\ base[y.current + 1] \in IllFormed
            /\ Encoding!StandsOn(i, Encoding!Failure([y EXCEPT !.current = @ + 1],
                                                     base[y.current + 1]))
            /\ UNCHANGED codec_does
      BY <2>1 DEF Encoding!LoadIllFormed
    <3>2. y = x
      BY <1>2, <3>1, ELoading
    <3>3. EReports(x)
      BY <3>1, <3>2 DEF EReports
    <3> QED
      BY <1>3, <1>5, <1>7, <3>1, <3>2, <3>3, EReported
  <2>2. CASE Encoding!LoadScalar(i)
    <3>1. PICK y \in Encoding!Loading(i) :
            /\ y.current < Length
            /\ mode = "report" => base[y.current + 1] \notin IllFormed
            /\ \E o \in Encoding!EncodeOutcomes :
                 /\ Encoding!Does(i, "encode_one", Encoding!Validate(base[y.current + 1]),
                                  y.codec, Encoding!EncodeOutcomes, o)
                 /\ Encoding!StandsOn(i, Encoding!Use([y EXCEPT !.current = @ + 1,
                                                                !.codec = o.owes], o))
      BY <2>2 DEF Encoding!LoadScalar
    <3>2. y = x
      BY <1>2, <3>1, ELoading
    <3>3. PICK o \in Encoding!EncodeOutcomes :
            /\ CodecDoes(<<"encode_one", Encoding!Validate(base[x.current + 1]), x.codec>>,
                         Encoding!EncodeOutcomes, o)
            /\ Encoding!StandsOn(i, Encoding!Use([x EXCEPT !.current = @ + 1,
                                                           !.codec = o.owes], o))
      BY <3>1, <3>2 DEF Encoding!Does, Encoding!CodecDoes, CodecDoes
    <3>4. ~EReports(x)
      BY <3>1, <3>2 DEF EReports
    <3> QED
      BY <1>3, <1>5, <1>7, <3>1, <3>2, <3>3, <3>4, EEncoded
  <2>3. CASE Encoding!LoadFlush(i)
    <3>1. PICK y \in Encoding!Loading(i) :
            /\ y.current = Length /\ Encoding!Flushable
            /\ \E o \in Encoding!FlushOutcomes(y.codec) :
                 /\ Encoding!Does(i, "flush", Encoding!None, y.codec,
                                  Encoding!FlushOutcomes(y.codec), o)
                 /\ IF Encoding!OwesNothing(o)
                    THEN Encoding!Stop(i, [y EXCEPT !.codec = o.owes])
                    ELSE Encoding!StandsOn(i, Encoding!Use([y EXCEPT !.codec = o.owes], o))
      BY <2>3 DEF Encoding!LoadFlush
    <3>2. y = x
      BY <1>2, <3>1, ELoading
    <3>3. PICK o \in Encoding!FlushOutcomes(x.codec) :
            /\ CodecDoes(<<"flush", None, x.codec>>, Encoding!FlushOutcomes(x.codec), o)
            /\ IF Encoding!OwesNothing(o)
               THEN Encoding!Stop(i, [x EXCEPT !.codec = o.owes])
               ELSE Encoding!StandsOn(i, Encoding!Use([x EXCEPT !.codec = o.owes], o))
      BY <3>1, <3>2 DEF Encoding!Does, Encoding!CodecDoes, CodecDoes, Encoding!None, None
    <3> QED
      BY <1>3, <1>5, <1>7, <3>1, <3>2, <3>3, EFlushed
  <2>4. CASE Encoding!LoadEnd(i)
    <3>1. PICK y \in Encoding!Loading(i) :
            /\ y.current = Length /\ ~Encoding!Flushable
            /\ Encoding!Stop(i, y) /\ UNCHANGED codec_does
      BY <2>4 DEF Encoding!LoadEnd
    <3>2. y = x
      BY <1>2, <3>1, ELoading
    <3> QED
      BY <1>3, <1>5, <1>7, <3>1, <3>2, EEnded
  <2>5. CASE Encoding!NextByte(i)
    <3>1. x = it[i] /\ x \in EIterators
      BY <1>2, <2>5 DEF Encoding!NextByte, Encoding!Unused, Unused, EType
    <3> QED
      BY <1>3, <1>5, <2>5, <3>1, ENextByte
  <2> QED
    BY <2>1, <2>2, <2>3, <2>4, <2>5 DEF Encoding!Load
<1>9. /\ \E q : EMoves(i, T[k].it, T[k].seen, T[k], q) /\ EAgreed(T[k].it, T[k].seen, q)'
  BY <1>1, <1>6, <1>8
<1> QED
  BY <1>7, <1>8, <1>9

\* What the codec has been found to do it goes on doing.
LEMMA EStillAgreed ==
  ASSUME Grows, UNCHANGED <<models, mode, base>>, NEW x, NEW s, NEW q, EAgreed(x, s, q)
  PROVE  EAgreed(x, s, q)'
<1>1. \A y : EStand(y, s)' = EStand(y, s)
  BY DEF EStand, Encoding!Element
<1>2. EKey(x)' = EKey(x) /\ EReports(x)' = EReports(x)
      /\ Encoding!Flushable' = Encoding!Flushable
  BY DEF EKey, EReports, Encoding!Validate, Encoding!Flushable
<1>3. \A o, y : Encoding!Use(y, o)' = Encoding!Use(y, o)
  BY DEF Encoding!Use, Encoding!Failure
<1>4. \A o : EAfter(x, s, o)' = EAfter(x, s, o)
  BY DEF EAfter, EStand, Encoding!Use, Encoding!Failure, Encoding!Element, Encoding!OwesNothing
<1>5. PICK key : key = EKey(x)
  OBVIOUS
<1>6. CASE ~ELoads(x)
  BY <1>1, <1>6 DEF EAgreed
<1>7. CASE ELoads(x) /\ EReports(x)
  BY <1>1, <1>2, <1>7 DEF EAgreed
<1>8. CASE ELoads(x) /\ ~EReports(x) /\ (x.current = Length /\ ~Encoding!Flushable)
  BY <1>2, <1>8 DEF EAgreed
<1>9. CASE ELoads(x) /\ ~EReports(x) /\ ~(x.current = Length /\ ~Encoding!Flushable)
  <2>1. PICK o : key \in DOMAIN codec_does /\ o = codec_does[key] /\ q = EAfter(x, s, o)
    BY <1>5, <1>9 DEF EAgreed
  <2>2. key \in DOMAIN codec_does' /\ o = codec_does'[key] /\ q = EAfter(x, s, o)'
    BY <1>4, <2>1 DEF Grows
  <2> QED
    BY <1>2, <1>5, <1>9, <2>2 DEF EAgreed
<1> QED
  BY <1>6, <1>7, <1>8, <1>9

\* The point after another is determined by what the codec has been found to do.
LEMMA EDeterministic ==
  ASSUME NEW x, NEW s, NEW q, NEW r, EAgreed(x, s, q)', EAgreed(x, s, r)'
  PROVE  q = r
<1>1. CASE ~ELoads(x)' \/ EReports(x)' \/ (x.current = Length /\ ~Encoding!Flushable')
  <2>1. CASE ~ELoads(x)'
    BY <2>1 DEF EAgreed
  <2>2. CASE ELoads(x)' /\ EReports(x)'
    BY <2>2 DEF EAgreed
  <2>3. CASE ELoads(x)' /\ ~EReports(x)' /\ x.current = Length /\ ~Encoding!Flushable'
    BY <2>3 DEF EAgreed
  <2> QED
    BY <1>1, <2>1, <2>2, <2>3
<1>2. CASE ~(~ELoads(x)' \/ EReports(x)' \/ (x.current = Length /\ ~Encoding!Flushable'))
  <2>1. PICK o : o = (codec_does[EKey(x)])' /\ q = EAfter(x, s, o)'
    BY <1>2 DEF EAgreed
  <2>2. PICK u : u = (codec_does[EKey(x)])' /\ r = EAfter(x, s, u)'
    BY <1>2 DEF EAgreed
  <2>3. o = u
    BY <2>1, <2>2
  <2> QED
    BY <2>1, <2>2, <2>3
<1> QED
  BY <1>1, <1>2

\* A point after the k-th is the next one of the course, or continues it.
LEMMA ETraceGrows ==
  ASSUME NEW T, ETrace(T), NEW k \in 1 .. Len(T), NEW q \in EPoints,
         EAgreed(T[k].it, T[k].seen, q)', Precedes(T[k], q), Grows, UNCHANGED <<models, mode, base>>
  PROVE  \E U : /\ ETrace(U)'
                /\ Len(U) \in Nat /\ Len(U) >= Len(T) /\ Len(U) >= k + 1
                /\ U[k + 1] = q
                /\ \A m \in 1 .. Len(T) : U[m] = T[m]
<1>1. T \in Seq(EPoints) /\ Len(T) >= 1 /\ Len(T) \in Nat /\ Ordered(T)
      /\ T[1] = EPoint(ENew, <<>>, FALSE)
  BY DEF ETrace
<1>2. \A m \in 1 .. Len(T) - 1 : EAgreed(T[m].it, T[m].seen, T[m + 1])'
  BY EStillAgreed DEF ETrace
<1>3. CASE k < Len(T)
  <2>1. EAgreed(T[k].it, T[k].seen, T[k + 1])'
    BY <1>1, <1>2, <1>3
  <2>2. q = T[k + 1]
    BY <2>1, EDeterministic
  <2>3. ETrace(T)'
    BY <1>1, <1>2 DEF ETrace
  <2> QED
    BY <1>1, <1>3, <2>2, <2>3
<1>4. CASE k = Len(T)
  <2>1. PICK U : U = Append(T, q)
    OBVIOUS
  <2>2. /\ U \in Seq(EPoints) /\ Len(U) = Len(T) + 1 /\ U[Len(T) + 1] = q
        /\ \A m \in 1 .. Len(T) : U[m] = T[m]
    BY <1>1, <2>1
  <2>3. Ordered(U)
    BY <1>1, <1>4, <2>1, OrderedAppend DEF EPoints
  <2>4. \A m \in 1 .. Len(U) - 1 : EAgreed(U[m].it, U[m].seen, U[m + 1])'
    <3> TAKE m \in 1 .. Len(U) - 1
    <3>1. CASE m < Len(T)
      <4>1. m \in 1 .. Len(T) - 1 /\ U[m] = T[m] /\ U[m + 1] = T[m + 1]
        BY <3>1, <2>2, <1>1
      <4> QED
        BY <4>1, <1>2
    <3>2. CASE m = Len(T)
      BY <3>2, <1>4, <2>2
    <3> QED
      BY <3>1, <3>2, <2>2, <1>1
  <2>5. U[1] = EPoint(ENew, <<>>, FALSE) /\ Len(U) >= 1
    <3>1. 1 \in 1 .. Len(T)
      BY <1>1
    <3>2. U[1] = T[1]
      BY <2>2, <3>1
    <3>3. Len(U) >= 1
      BY <2>2, <1>1
    <3> QED
      BY <1>1, <3>2, <3>3
  <2>6. ETrace(U)'
    BY <2>2, <2>3, <2>4, <2>5 DEF ETrace
  <2> QED
    BY <1>1, <1>4, <2>2, <2>6
<1> QED
  BY <1>1, <1>3, <1>4


\* What a call c of the codec of iterator i, which was x, is, and what it leaves.
ECallOf(i, x, c) ==
  \/ /\ x.current < Length /\ it'[i].current = x.current + 1
     /\ c[1] \in {"none", "encode_one"}
     /\ c[1] = "none" <=> EReports(x)
     /\ c[1] = "encode_one" => c[2] = Encoding!Validate(base[x.current + 1])
  \/ /\ x.current = Length /\ it'[i].current = x.current
     /\ c[1] = "flush"
     /\ it'[i].done \/ ~Encoding!OwesNothing(c[3])

\* What load() or operator++ on x does to the calls of iterator i.
ECallsFrom(i, x) ==
  /\ x \in EIterators /\ x.done = FALSE
  /\ it[i] = Unused => x = ENew
  /\ it[i] # Unused => x = it[i]
  /\ \/ calls' = calls /\ it'[i].current = x.current
     \/ \E c \in ECalls : calls' = [calls EXCEPT ![i] = Append(@, c)] /\ ECallOf(i, x, c)

\* load() and operator++ make at most one call, of this form.
LEMMA ECalled ==
  ASSUME EType, NEW i \in Iterators, Encoding!Load(i) \/ Encoding!NextByte(i)
  PROVE  \E x : ECallsFrom(i, x)
<1>1. CASE Encoding!LoadIllFormed(i)
  <2>1. PICK x \in Encoding!Loading(i) :
            /\ x.current < Length /\ mode = "report" /\ base[x.current + 1] \in IllFormed
            /\ Encoding!StandsOn(i, Encoding!Failure([x EXCEPT !.current = @ + 1],
                                                     base[x.current + 1]))
            /\ calls' = [calls EXCEPT ![i] =
                           Append(@, <<"none", base[x.current + 1], Encoding!Nullopt(x.codec)>>)]
    BY <1>1 DEF Encoding!LoadIllFormed
  <2>2. /\ x \in EIterators /\ x.done = FALSE
        /\ it[i] = Unused => x = ENew
        /\ it[i] # Unused => x = it[i]
    BY ELoading
  <2>3. PICK c : c = <<"none", base[x.current + 1], Encoding!Nullopt(x.codec)>>
    OBVIOUS
  <2>4. Encoding!Nullopt(x.codec) \in [engaged : BOOLEAN, owes : Codecs, error : BOOLEAN,
                                       bytes : CodecBytes \cup {<<>>}]
    BY <2>2, EFields DEF Encoding!Nullopt
  <2>5. c \in ECalls
    BY <2>1, <2>3, <2>4 DEF ECalls
  <2>6. it'[i].current = x.current + 1
    BY <2>1, <2>2 DEF Encoding!StandsOn, Encoding!Failure, EType, EIterators
  <2>7. ECallOf(i, x, c)
    BY <2>1, <2>3, <2>6 DEF ECallOf, EReports
  <2> QED
    BY <2>1, <2>2, <2>3, <2>5, <2>7 DEF ECallsFrom
<1>2. CASE Encoding!LoadScalar(i)
  <2>1. PICK x \in Encoding!Loading(i) :
            /\ x.current < Length
            /\ mode = "report" => base[x.current + 1] \notin IllFormed
            /\ \E o \in Encoding!EncodeOutcomes :
                 /\ Encoding!Does(i, "encode_one", Encoding!Validate(base[x.current + 1]),
                                  x.codec, Encoding!EncodeOutcomes, o)
                 /\ Encoding!StandsOn(i, Encoding!Use([x EXCEPT !.current = @ + 1,
                                                                !.codec = o.owes], o))
    BY <1>2 DEF Encoding!LoadScalar
  <2>2. /\ x \in EIterators /\ x.done = FALSE
        /\ it[i] = Unused => x = ENew
        /\ it[i] # Unused => x = it[i]
    BY ELoading
  <2>3. PICK o \in Encoding!EncodeOutcomes :
          /\ calls' = [calls EXCEPT ![i] =
                Append(@, <<"encode_one", Encoding!Validate(base[x.current + 1]), o>>)]
          /\ Encoding!StandsOn(i, Encoding!Use([x EXCEPT !.current = @ + 1,
                                                         !.codec = o.owes], o))
    BY <2>1 DEF Encoding!Does
  <2>4. PICK c : c = <<"encode_one", Encoding!Validate(base[x.current + 1]), o>>
    OBVIOUS
  <2>5. /\ o \in [engaged : BOOLEAN, owes : Codecs, error : BOOLEAN,
                  bytes : CodecBytes \cup {<<>>}]
        /\ o.owes \in Codecs /\ o.error \in BOOLEAN /\ o.bytes \in CodecBytes
        /\ o.error \/ o.bytes # <<>>
    BY DEF Encoding!EncodeOutcomes, Encoding!Results, Encoding!Codecs, Codecs
  <2>6. Encoding!Validate(base[x.current + 1]) \in Scalars \cup IllFormed \cup {Encoding!Replacement}
    <3>1. x.current + 1 \in 1 .. Length
      BY <2>1, <2>2, EFields, ViewAssumption
    <3> QED
      BY <3>1 DEF EType, Encoding!Validate
  <2>7. c \in ECalls
    BY <2>4, <2>5, <2>6 DEF ECalls
  <2>8. it'[i].current = x.current + 1
    <3>1. PICK z : z = [x EXCEPT !.current = @ + 1, !.codec = o.owes]
      OBVIOUS
    <3>2. z \in EIterators /\ z.done = FALSE /\ z.current = x.current + 1
      <4>1. z = [kind |-> x.kind, current |-> x.current + 1, codec |-> o.owes, buf |-> x.buf,
                 pos |-> x.pos, error |-> x.error, done |-> x.done]
        BY <2>2, <3>1 DEF EIterators
      <4>2. x.current + 1 \in 0 .. Length
        BY <2>1, <2>2, EFields, ViewAssumption
      <4> QED
        BY <2>2, <2>5, <4>1, <4>2 DEF EIterators
    <3>3. Encoding!Use(z, o).current = x.current + 1
      BY <2>5, <3>2, EUsed
    <3>4. it'[i] = Encoding!Use(z, o)
      BY <2>3, <3>1 DEF Encoding!StandsOn, EType
    <3> QED
      BY <3>3, <3>4
  <2>9. ECallOf(i, x, c)
    BY <2>1, <2>4, <2>8 DEF ECallOf, EReports
  <2> QED
    BY <2>2, <2>3, <2>4, <2>7, <2>9 DEF ECallsFrom
<1>3. CASE Encoding!LoadFlush(i)
  <2>1. PICK x \in Encoding!Loading(i) :
            /\ x.current = Length
            /\ \E o \in Encoding!FlushOutcomes(x.codec) :
                 /\ Encoding!Does(i, "flush", Encoding!None, x.codec,
                                  Encoding!FlushOutcomes(x.codec), o)
                 /\ IF Encoding!OwesNothing(o)
                    THEN Encoding!Stop(i, [x EXCEPT !.codec = o.owes])
                    ELSE Encoding!StandsOn(i, Encoding!Use([x EXCEPT !.codec = o.owes], o))
    BY <1>3, SMTT(30) DEF Encoding!LoadFlush
  <2>2. /\ x \in EIterators /\ x.done = FALSE
        /\ it[i] = Unused => x = ENew
        /\ it[i] # Unused => x = it[i]
    BY ELoading
  <2>3. PICK o \in Encoding!FlushOutcomes(x.codec) :
          /\ calls' = [calls EXCEPT ![i] = Append(@, <<"flush", None, o>>)]
          /\ IF Encoding!OwesNothing(o)
             THEN Encoding!Stop(i, [x EXCEPT !.codec = o.owes])
             ELSE Encoding!StandsOn(i, Encoding!Use([x EXCEPT !.codec = o.owes], o))
    BY <2>1 DEF Encoding!Does, Encoding!None, None
  <2>4. PICK c : c = <<"flush", None, o>>
    OBVIOUS
  <2>5. /\ o \in [engaged : BOOLEAN, owes : Codecs, error : BOOLEAN,
                  bytes : CodecBytes \cup {<<>>}]
        /\ o.owes \in Codecs /\ o.error \in BOOLEAN
        /\ ~Encoding!OwesNothing(o) =>
              o.bytes \in CodecBytes /\ (o.error \/ o.bytes # <<>>)
    BY <2>2, EFields, EFlushOutcome
  <2>6. c \in ECalls
    BY <2>4, <2>5 DEF ECalls
  <2>7. PICK z : z = [x EXCEPT !.codec = o.owes]
    OBVIOUS
  <2>8. z \in EIterators /\ z.done = FALSE /\ z.current = x.current
    BY <2>2, <2>5, <2>7 DEF EIterators
  <2>9. /\ it'[i].current = x.current
        /\ it'[i].done \/ ~Encoding!OwesNothing(o)
    <3>1. CASE Encoding!OwesNothing(o)
      <4>1. it'[i] = [z EXCEPT !.done = TRUE]
        BY <2>3, <2>7, <3>1 DEF Encoding!Stop, EType
      <4> QED
        BY <2>8, <4>1 DEF EIterators
    <3>2. CASE ~Encoding!OwesNothing(o)
      <4>1. Encoding!Use(z, o).current = x.current
        BY <2>5, <2>8, <3>2, EUsed
      <4>2. it'[i] = Encoding!Use(z, o)
        BY <2>3, <2>7, <3>2 DEF Encoding!StandsOn, EType
      <4> QED
        BY <3>2, <4>1, <4>2
    <3> QED
      BY <3>1, <3>2
  <2>10. ECallOf(i, x, c)
    BY <2>1, <2>4, <2>9 DEF ECallOf
  <2> QED
    BY <2>2, <2>3, <2>4, <2>6, <2>10 DEF ECallsFrom
<1>4. CASE Encoding!LoadEnd(i)
  <2>1. PICK x \in Encoding!Loading(i) : Encoding!Stop(i, x) /\ UNCHANGED calls
    BY <1>4 DEF Encoding!LoadEnd
  <2>2. /\ x \in EIterators /\ x.done = FALSE
        /\ it[i] = Unused => x = ENew
        /\ it[i] # Unused => x = it[i]
    BY ELoading
  <2>3. it'[i].current = x.current
    BY <2>1, <2>2 DEF Encoding!Stop, EType, EIterators
  <2> QED
    BY <2>1, <2>2, <2>3 DEF ECallsFrom
<1>5. CASE Encoding!NextByte(i)
  <2>1. it[i] \in EIterators /\ it[i] # Unused /\ ~it[i].done
    BY <1>5 DEF Encoding!NextByte, Encoding!Unused, Unused, EType
  <2>2. it'[i].current = it[i].current /\ calls' = calls
    BY <1>5, <2>1 DEF Encoding!NextByte, Encoding!StandsOn, EType, EIterators
  <2> QED
    BY <2>1, <2>2, EFields DEF ECallsFrom
<1> QED
  BY <1>1, <1>2, <1>3, <1>4, <1>5 DEF Encoding!Load


\* What the k-th call in cs has to be.
EKept(cs, k) ==
  IF k <= Length
  THEN /\ cs[k][1] = "none" <=> mode = "report" /\ base[k] \in IllFormed
       /\ cs[k][1] = "encode_one" =>
            cs[k][2] = IF base[k] \in Scalars THEN base[k] ELSE Encoding!Replacement
  ELSE /\ cs[k][1] = "flush"
       /\ k > Length + 1 => ~Encoding!OwesNothing(cs[k - 1][3])

\* The calls iterator i has made, and what the next one will be.
EContract(i) ==
  /\ \A k \in 1 .. Len(calls[i]) : EKept(calls[i], k)
  /\ it[i] # Unused =>
       it[i].current = IF Len(calls[i]) <= Length THEN Len(calls[i]) ELSE Length
  /\ it[i] # Unused /\ ~it[i].done /\ Len(calls[i]) > Length =>
       ~Encoding!OwesNothing(calls[i][Len(calls[i])][3])

\* The inductive invariant of encode_view.
EInv == EType /\ ETraced /\ \A i \in Iterators : EContract(i)

\* The iterator that took a step has made no call against the contract.
LEMMA EStepKeepsContract ==
  ASSUME EType, NEW i \in Iterators, EContract(i), Encoding!Load(i) \/ Encoding!NextByte(i),
         it'[i] # Unused, UNCHANGED <<mode, base>>
  PROVE  EContract(i)'
<1>1. PICK x : ECallsFrom(i, x)
  BY ECalled
<1>2. PICK cs : cs = calls[i]
  OBVIOUS
<1>3. cs \in Seq(ECalls) /\ Len(cs) \in Nat /\ (it[i] = Unused => Len(cs) = 0)
  BY <1>2 DEF EType
<1>4. /\ x.current \in Nat /\ x.done = FALSE /\ Length \in Nat
      /\ x.current = IF Len(cs) <= Length THEN Len(cs) ELSE Length
      /\ Len(cs) > Length => ~Encoding!OwesNothing(cs[Len(cs)][3])
  <2>1. x.current \in Nat /\ x.done = FALSE /\ Length \in Nat
    BY <1>1, EFields, ViewAssumption DEF ECallsFrom
  <2>2. CASE it[i] = Unused
    BY <1>1, <1>3, <2>1, <2>2, ENewFields DEF ECallsFrom
  <2>3. CASE it[i] # Unused
    BY <1>1, <1>2, <2>1, <2>3 DEF ECallsFrom, EContract
  <2> QED
    BY <2>1, <2>2, <2>3
<1>5. \A k \in 1 .. Len(cs) : EKept(cs, k)
  BY <1>2 DEF EContract
<1>6. CASE calls' = calls /\ it'[i].current = x.current
  <2>1. cs = calls'[i]
    BY <1>2, <1>6
  <2>2. \A k \in 1 .. Len(cs) : EKept(cs, k)'
    BY <1>5 DEF EKept
  <2> QED
    BY <1>4, <1>6, <2>1, <2>2 DEF EContract
<1>7. CASE ~(calls' = calls /\ it'[i].current = x.current)
  <2>1. PICK c \in ECalls : calls' = [calls EXCEPT ![i] = Append(@, c)] /\ ECallOf(i, x, c)
    BY <1>1, <1>7 DEF ECallsFrom
  <2>2. PICK ds : ds = Append(cs, c)
    OBVIOUS
  <2>3. /\ ds = calls'[i] /\ Len(ds) = Len(cs) + 1 /\ ds[Len(cs) + 1] = c
        /\ \A k \in 1 .. Len(cs) : ds[k] = cs[k]
    BY <1>2, <1>3, <2>1, <2>2 DEF EType
  <2>4. \A k \in 1 .. Len(cs) : EKept(ds, k)'
    <3> SUFFICES ASSUME NEW k \in 1 .. Len(cs)
                 PROVE  EKept(ds, k)'
      OBVIOUS
    <3>1. ds[k] = cs[k] /\ (k > Length + 1 => ds[k - 1] = cs[k - 1])
      BY <1>3, <1>4, <2>3, SMTT(30)
    <3> QED
      BY <1>5, <3>1 DEF EKept
  <2>5. CASE x.current < Length
    <3>1. /\ x.current = Len(cs) /\ Len(cs) + 1 <= Length /\ it'[i].current = Len(cs) + 1
          /\ c[1] = "none" <=> EReports(x)
          /\ c[1] = "encode_one" => c[2] = Encoding!Validate(base[x.current + 1])
      BY <1>3, <1>4, <2>1, <2>5 DEF ECallOf
    <3>2. base[Len(cs) + 1] \in Scalars \cup IllFormed
      BY <1>3, <1>4, <3>1 DEF EType
    <3>3. EKept(ds, Len(cs) + 1)'
      BY <2>3, <2>5, <3>1, <3>2, EncodeAssumption DEF EKept, EReports, Encoding!Validate
    <3>4. \A k \in 1 .. Len(ds) : EKept(ds, k)'
      <4>1. \A k \in 1 .. Len(ds) : k \in 1 .. Len(cs) \/ k = Len(cs) + 1
        BY <1>3, <2>3
      <4> QED
        BY <2>4, <3>3, <4>1
    <3> QED
      BY <1>3, <1>4, <2>3, <3>1, <3>4 DEF EContract
  <2>6. CASE ~(x.current < Length)
    <3>1. /\ x.current = Length /\ it'[i].current = Length /\ c[1] = "flush"
          /\ it'[i].done \/ ~Encoding!OwesNothing(c[3])
      BY <2>1, <2>6 DEF ECallOf
    <3>2. Len(cs) >= Length
      BY <1>3, <1>4, <3>1
    <3>3. Len(cs) + 1 > Length + 1 => ~Encoding!OwesNothing(ds[Len(cs)][3])
      BY <1>3, <1>4, <2>3, <3>2
    <3>4. \A r : Encoding!OwesNothing(r)' = Encoding!OwesNothing(r)
      BY DEF Encoding!OwesNothing
    <3>5. EKept(ds, Len(cs) + 1)'
      BY <1>3, <1>4, <2>3, <3>1, <3>2, <3>3, <3>4 DEF EKept
    <3>6. \A k \in 1 .. Len(ds) : EKept(ds, k)'
      <4>1. \A k \in 1 .. Len(ds) : k \in 1 .. Len(cs) \/ k = Len(cs) + 1
        BY <1>3, <2>3
      <4> QED
        BY <2>4, <3>5, <4>1
    <3> QED
      BY <1>3, <1>4, <2>3, <3>1, <3>2, <3>4, <3>6 DEF EContract
  <2> QED
    BY <2>5, <2>6
<1> QED
  BY <1>6, <1>7

\* The contract of an iterator another's step leaves alone.
LEMMA EContractElsewhere ==
  ASSUME NEW i, NEW j, EContract(i), UNCHANGED <<mode, base>>,
         calls'[j] = calls[i], it'[j] = it[i]
  PROVE  EContract(j)'
<1>1. PICK cs : cs = calls[i]
  OBVIOUS
<1>2. \A k : EKept(cs, k)' = EKept(cs, k)
  BY DEF EKept, Encoding!OwesNothing
<1> QED
  BY <1>1, <1>2 DEF EContract, Encoding!OwesNothing

\* load() and operator++ of encode_view keep its inductive invariant.
LEMMA EStepKeepsInv ==
  ASSUME EInv, NEW i \in Iterators, Encoding!Load(i) \/ Encoding!NextByte(i)
  PROVE  EInv'
<1> USE DEF EInv
<1>1. PICK T : /\ ETrace(T)
               /\ \A j \in Iterators : it[j] # Unused =>
                    \E k \in 1 .. Len(T) : EIsAt(j, T[k])
  BY DEF ETraced
<1>2. T \in Seq(EPoints) /\ Len(T) \in Nat /\ Len(T) >= 1
  BY <1>1 DEF ETrace
<1>3. PICK k \in 1 .. Len(T) : EPlaced(i, T, k)
  <2>1. 1 \in 1 .. Len(T)
    BY <1>2
  <2> QED
    BY <1>1, <2>1 DEF EPlaced
<1>4. PICK q : EMoves(i, T[k].it, T[k].seen, T[k], q) /\ EAgreed(T[k].it, T[k].seen, q)'
  BY <1>1, <1>3, EStep
<1>5. Grows /\ UNCHANGED <<models, mode, base, loading>>
  BY <1>1, <1>3, EStep
<1>6. /\ q \in EPoints /\ q = EPoint(it'[i], seen'[i], q.stands)
      /\ Precedes(T[k], q) /\ (q.done \/ q.stands)
      /\ it' = [it EXCEPT ![i] = q.it] /\ seen' = [seen EXCEPT ![i] = q.seen]
      /\ q.it \in EIterators /\ q.seen \in Seq(Elements)
      /\ ~q.it.done => q.it.pos < Len(q.it.buf)
  BY <1>4 DEF EMoves
<1>7. /\ it'[i] = q.it /\ seen'[i] = q.seen /\ it'[i] # Unused
      /\ \A j \in Iterators : j # i => it'[j] = it[j] /\ seen'[j] = seen[j]
  BY <1>6, EIteratorsAreUsed DEF EType
<1>8. ETraced'
  <2>1. PICK U : /\ ETrace(U)'
                 /\ Len(U) \in Nat /\ Len(U) >= Len(T) /\ Len(U) >= k + 1
                 /\ U[k + 1] = q
                 /\ \A m \in 1 .. Len(T) : U[m] = T[m]
    BY <1>1, <1>4, <1>5, <1>6, ETraceGrows
  <2>2. SUFFICES ASSUME NEW j \in Iterators, it'[j] # Unused
                 PROVE  \E m \in 1 .. Len(U) : EIsAt(j, U[m])'
    BY <2>1 DEF ETraced
  <2>3. CASE j = i
    <3>1. q.done = it'[i].done
      BY <1>6, EPointFields
    <3>2. EIsAt(i, q)'
      BY <1>6, <3>1 DEF EIsAt
    <3> QED
      BY <2>1, <2>3, <3>2
  <2>4. CASE j # i
    <3>1. PICK m \in 1 .. Len(T) : EIsAt(j, T[m])
      BY <1>1, <1>7, <2>2, <2>4
    <3>2. EIsAt(j, T[m])'
      BY <1>7, <2>4, <3>1 DEF EIsAt
    <3> QED
      BY <1>2, <2>1, <3>2
  <2> QED
    BY <2>3, <2>4
<1>9. /\ calls' \in [Iterators -> Seq(ECalls)]
      /\ \A j \in Iterators : j # i => calls'[j] = calls[j]
  <2>1. PICK x : ECallsFrom(i, x)
    BY ECalled
  <2>2. CASE calls' = calls
    BY <2>2 DEF EType
  <2>3. CASE calls' # calls
    <3>1. PICK c \in ECalls : calls' = [calls EXCEPT ![i] = Append(@, c)]
      BY <2>1, <2>3 DEF ECallsFrom
    <3> QED
      BY <3>1 DEF EType
  <2> QED
    BY <2>2, <2>3
<1>10. EType'
  <2>1. it' \in [Iterators -> EIterators \cup {Unused}] /\ seen' \in [Iterators -> Seq(Elements)]
    BY <1>6 DEF EType
  <2>2. \A j \in Iterators : it'[j] # Unused /\ ~it'[j].done => it'[j].pos < Len(it'[j].buf)
    BY <1>6, <1>7 DEF EType
  <2>3. \A j \in Iterators : it'[j] = Unused => seen'[j] = <<>> /\ calls'[j] = <<>>
    BY <1>7, <1>9 DEF EType
  <2>4. /\ mode' \in {"replacement", "report"}
        /\ base' \in [1 .. Length -> Scalars \cup IllFormed] /\ loading' = Idle
    BY <1>5 DEF EType
  <2>5. Elements' = Elements
    OBVIOUS
  <2> QED
    BY <1>9, <2>1, <2>2, <2>3, <2>4 DEF EType
<1>11. \A j \in Iterators : EContract(j)'
  <2> TAKE j \in Iterators
  <2>1. CASE j = i
    BY <1>5, <1>7, <2>1, EStepKeepsContract
  <2>2. CASE j # i
    BY <1>5, <1>7, <1>9, <2>2, EContractElsewhere
  <2> QED
    BY <2>1, <2>2
<1> QED
  BY <1>8, <1>10, <1>11

\* A copy is where the original is.
LEMMA ECopyKeepsInv ==
  ASSUME EInv, NEW i \in Iterators, NEW j \in Iterators, Copy(i, j), UNCHANGED <<mode, base>>
  PROVE  EInv'
<1> USE DEF EInv
<1>1. /\ it[i] # Unused /\ it' = [it EXCEPT ![j] = it[i]]
      /\ seen' = [seen EXCEPT ![j] = seen[i]]
      /\ calls' = [calls EXCEPT ![j] = calls[i]]
      /\ UNCHANGED <<models, loading, codec_does>>
  BY DEF Copy
<1>2. \A l \in Iterators : \E f \in Iterators :
        it'[l] = it[f] /\ seen'[l] = seen[f] /\ calls'[l] = calls[f]
  BY <1>1 DEF EType
<1>3. EType'
  BY <1>1 DEF EType
<1>4. ETraced'
  <2>1. PICK T : /\ ETrace(T)
                 /\ \A l \in Iterators : it[l] # Unused =>
                      \E k \in 1 .. Len(T) : EIsAt(l, T[k])
    BY DEF ETraced
  <2>2. Grows
    BY <1>1 DEF Grows
  <2>3. ETrace(T)'
    BY <1>1, <2>1, <2>2, EStillAgreed DEF ETrace
  <2>4. SUFFICES ASSUME NEW l \in Iterators, it'[l] # Unused
                 PROVE  \E m \in 1 .. Len(T) : EIsAt(l, T[m])'
    BY <2>3 DEF ETraced
  <2>5. PICK f \in Iterators : it[f] # Unused /\ it'[l] = it[f] /\ seen'[l] = seen[f]
    BY <1>2, <2>4
  <2>6. PICK m \in 1 .. Len(T) : EIsAt(f, T[m])
    BY <2>1, <2>5
  <2>7. EIsAt(l, T[m])'
    BY <2>5, <2>6 DEF EIsAt
  <2> QED
    BY <2>7
<1>5. \A l \in Iterators : EContract(l)'
  <2> TAKE l \in Iterators
  <2>1. PICK f \in Iterators : it'[l] = it[f] /\ calls'[l] = calls[f]
    BY <1>2
  <2> QED
    BY <2>1, EContractElsewhere
<1> QED
  BY <1>3, <1>4, <1>5


\* Every step of encode_view keeps its inductive invariant.
LEMMA EInvKept == ASSUME EInv, Encoding!Next PROVE EInv'
<1>1. PICK i \in Iterators :
        \/ Encoding!Load(i) \/ Encoding!NextByte(i)
        \/ \E j \in Iterators : Encoding!Copy(i, j) /\ UNCHANGED <<mode, base>>
  BY DEF Encoding!Next, Encoding!Begin, Encoding!Goes, Encoding!own
<1>2. CASE Encoding!Load(i) \/ Encoding!NextByte(i)
  BY <1>2, EStepKeepsInv
<1>3. CASE \E j \in Iterators : Encoding!Copy(i, j) /\ UNCHANGED <<mode, base>>
  BY <1>3, ECopyKeepsInv
  DEF Encoding!Copy, Copy, Encoding!Unused, Unused, Encoding!Idle, Idle
<1> QED
  BY <1>1, <1>2, <1>3

\* The inductive invariant of encode_view holds at first.
LEMMA EInvStarts == ASSUME Encoding!Init PROVE EInv
<1>1. /\ it = [i \in Iterators |-> Unused] /\ loading = Idle /\ codec_does = <<>>
      /\ seen = [i \in Iterators |-> <<>>] /\ calls = [i \in Iterators |-> <<>>]
      /\ mode \in {"replacement", "report"}
      /\ base \in [1 .. Length -> Scalars \cup IllFormed]
  BY DEF Encoding!Init, Encoding!NothingYet, Encoding!Unused, Unused, Encoding!Idle, Idle
<1>2. <<>> \in Seq(Elements) /\ <<>> \in Seq(ECalls) /\ Len(<<>>) = 0
  OBVIOUS
<1>3. EType
  BY <1>1, <1>2 DEF EType
<1>4. ETraced
  <2>1. PICK p : p = EPoint(ENew, <<>>, FALSE)
    OBVIOUS
  <2>2. p \in EPoints
    <3>1. FALSE \in BOOLEAN
      OBVIOUS
    <3> QED
      BY <2>1, <3>1, <1>2, EAll, EPointTyped
  <2>3. PICK T : T = <<p>>
    OBVIOUS
  <2>4. T \in Seq(EPoints) /\ Len(T) = 1 /\ T[1] = p
    BY <2>2, <2>3
  <2>5. Ordered(T)
    BY <2>4 DEF Ordered
  <2>6. ETrace(T)
    BY <2>1, <2>4, <2>5 DEF ETrace
  <2> QED
    BY <1>1, <2>6 DEF ETraced
<1>5. \A i \in Iterators : EContract(i)
  <2> TAKE i \in Iterators
  <2>1. it[i] = Unused /\ Len(calls[i]) = 0
    BY <1>1
  <2> QED
    BY <2>1 DEF EContract
<1> QED
  BY <1>3, <1>4, <1>5 DEF EInv

\* Any two iterators of encode_view are at points of one course.
LEMMA EReady ==
  ASSUME EInv
  PROVE  \E T \in Seq(EPoints) :
           /\ Ordered(T)
           /\ \A i \in Iterators : it[i] # Unused =>
                \E k \in 1 .. Len(T) :
                  /\ T[k].seen = seen[i] /\ T[k].done = it[i].done /\ T[k].it = it[i]
                  /\ T[k].rank = ERank(it[i])
                  /\ it[i].done \/ T[k].stands
<1>1. PICK T : /\ ETrace(T)
               /\ \A i \in Iterators : it[i] # Unused =>
                    \E k \in 1 .. Len(T) : EIsAt(i, T[k])
  BY DEF EInv, ETraced
<1>2. ASSUME NEW i \in Iterators, it[i] # Unused
      PROVE  \E k \in 1 .. Len(T) :
                  /\ T[k].seen = seen[i] /\ T[k].done = it[i].done /\ T[k].it = it[i]
                  /\ T[k].rank = ERank(it[i])
                  /\ it[i].done \/ T[k].stands
  <2>1. PICK k \in 1 .. Len(T) : EIsAt(i, T[k])
    BY <1>1, <1>2
  <2>2. PICK b : b = T[k].stands
    OBVIOUS
  <2>3. T[k] = EPoint(it[i], seen[i], b) /\ (it[i].done \/ T[k].stands)
    BY <2>1, <2>2 DEF EIsAt
  <2> QED
    BY <2>3, EPointFields
<1> QED
  BY <1>1, <1>2 DEF ETrace

\* Iterators on one course have seen the same elements, as far as they went.
LEMMA EMultiPass == ASSUME EInv PROVE MultiPass
<1>1. PICK T \in Seq(EPoints) :
           /\ Ordered(T)
           /\ \A i \in Iterators : it[i] # Unused =>
                \E k \in 1 .. Len(T) :
                  /\ T[k].seen = seen[i] /\ T[k].done = it[i].done /\ T[k].it = it[i]
                  /\ T[k].rank = ERank(it[i])
                  /\ it[i].done \/ T[k].stands
  BY EReady
<1>2. SUFFICES ASSUME NEW i \in Iterators, NEW j \in Iterators, Ready(i), Ready(j)
               PROVE  /\ IsPrefixOf(seen[i], seen[j]) \/ IsPrefixOf(seen[j], seen[i])
                      /\ it[i].done /\ it[j].done => seen[i] = seen[j]
  BY DEF MultiPass
<1>3. PICK k \in 1 .. Len(T) : T[k].seen = seen[i] /\ T[k].done = it[i].done
  BY <1>1, <1>2 DEF Ready
<1>4. PICK l \in 1 .. Len(T) : T[l].seen = seen[j] /\ T[l].done = it[j].done
  BY <1>1, <1>2 DEF Ready
<1>5. CASE k = l
  BY <1>3, <1>4, <1>5, PrefixOfItself DEF EInv, EType
<1>6. CASE k < l
  BY <1>1, <1>3, <1>4, <1>6 DEF Ordered, Precedes
<1>7. CASE l < k
  BY <1>1, <1>3, <1>4, <1>7 DEF Ordered, Precedes
<1> QED
  BY <1>5, <1>6, <1>7

\* Iterators at two points of a course differ in what == compares.
LEMMA EEquality == ASSUME EInv PROVE Encoding!EqualIsSameElement
<1>1. PICK T \in Seq(EPoints) :
           /\ Ordered(T)
           /\ \A i \in Iterators : it[i] # Unused =>
                \E k \in 1 .. Len(T) :
                  /\ T[k].seen = seen[i] /\ T[k].done = it[i].done /\ T[k].it = it[i]
                  /\ T[k].rank = ERank(it[i])
                  /\ it[i].done \/ T[k].stands
  BY EReady
<1>2. ASSUME NEW i \in Iterators, NEW j \in Iterators, it[i] # Unused, it[j] # Unused
      PROVE  LET same == Len(seen[i]) = Len(seen[j]) /\ it[i].done = it[j].done
             IN  /\ same => Encoding!Equal(i, j)
                 /\ Encoding!Comparable /\ Encoding!Equal(i, j) => same
  <2>1. PICK k \in 1 .. Len(T) :
          /\ T[k].seen = seen[i] /\ T[k].done = it[i].done /\ T[k].it = it[i]
          /\ T[k].rank = [at |-> it[i].current, owes |-> it[i].codec, pos |-> it[i].pos]
          /\ it[i].done \/ T[k].stands
    BY <1>1, <1>2 DEF ERank
  <2>2. PICK l \in 1 .. Len(T) :
          /\ T[l].seen = seen[j] /\ T[l].done = it[j].done /\ T[l].it = it[j]
          /\ T[l].rank = [at |-> it[j].current, owes |-> it[j].codec, pos |-> it[j].pos]
          /\ it[j].done \/ T[l].stands
    BY <1>1, <1>2 DEF ERank
  <2>4. /\ it[i].done \in BOOLEAN /\ it[j].done \in BOOLEAN
        /\ it[i].current \in Nat /\ it[j].current \in Nat
        /\ it[i].codec \in Nat /\ it[j].codec \in Nat
        /\ it[i].pos \in Nat /\ it[j].pos \in Nat
        /\ Len(seen[i]) \in Nat /\ Len(seen[j]) \in Nat
    <3>1. it[i] \in EIterators /\ it[j] \in EIterators
      BY <1>2 DEF EInv, EType
    <3>2. Len(seen[i]) \in Nat /\ Len(seen[j]) \in Nat
      BY DEF EInv, EType
    <3> QED
      BY <3>1, <3>2, EFields
  <2>5. CASE k = l
    BY <2>1, <2>2, <2>4, <2>5 DEF Encoding!Equal
  <2>6. CASE k < l
    <3>1. Precedes(T[k], T[l])
      BY <1>1, <2>6 DEF Ordered
    <3>2. ~it[i].done /\ (Encoding!Comparable => ~Encoding!Equal(i, j))
      BY <2>1, <2>2, <2>4, <3>1, SMTT(30) DEF Precedes, Before, Encoding!Equal
    <3>3. ~it[j].done => Len(seen[i]) < Len(seen[j])
      BY <2>1, <2>2, <3>1 DEF Precedes
    <3> QED
      BY <2>4, <3>2, <3>3, SMTT(30)
  <2>7. CASE l < k
    <3>1. Precedes(T[l], T[k])
      BY <1>1, <2>7 DEF Ordered
    <3>2. ~it[j].done /\ (Encoding!Comparable => ~Encoding!Equal(i, j))
      BY <2>1, <2>2, <2>4, <3>1, SMTT(30) DEF Precedes, Before, Encoding!Equal
    <3>3. ~it[i].done => Len(seen[j]) < Len(seen[i])
      BY <2>1, <2>2, <3>1 DEF Precedes
    <3> QED
      BY <2>4, <3>2, <3>3, SMTT(30)
  <2> QED
    BY <2>5, <2>6, <2>7
<1> QED
  BY <1>2 DEF Encoding!EqualIsSameElement, Encoding!Ready, Encoding!Unused, Unused

\* The types and the contract are parts of the invariant.
LEMMA EHolds ==
  ASSUME EInv
  PROVE  Encoding!TypeOK /\ Encoding!CodecContract
<1>1. Encoding!TypeOK
  BY DEF EInv, EType, EIterators, Elements, Encoding!TypeOK, Encoding!Unused, Unused,
     Encoding!Idle, Idle, Encoding!None, None, Encoding!Codecs, Codecs
<1>2. Encoding!CodecContract
  BY DEF EInv, EContract, EKept, Encoding!CodecContract
<1> QED
  BY <1>1, <1>2

-----------------------------------------------------------------------------
\* A set of numbers has a least one.
LEMMA LeastOf ==
  ASSUME NEW T, T \subseteq Nat, T # {}
  PROVE  \E m \in T : \A q \in T : m <= q
<1>1. PICK m \in T : \A q \in T : ~(<<q, m>> \in OpToRel(<, Nat))
  BY NatLessThanWellFounded, WFMin, Zenon
<1>2. ASSUME NEW q \in T PROVE m <= q
  <2>1. <<q, m>> \notin OpToRel(<, Nat)
    BY <1>1
  <2>2. q \in Nat /\ m \in Nat
    OBVIOUS
  <2>3. ~(q < m)
    BY <2>1, <2>2, Zenon DEF OpToRel
  <2> QED
    BY <2>2, <2>3
<1> QED
  BY <1>2

\* f has the first sequences of seqs, one after another, as FlattenSeq puts them.
Flattens(f, seqs, n) ==
  f = [k \in 1 .. n |-> IF k = 1 THEN seqs[k] ELSE f[k - 1] \o seqs[k]]

LEMMA FlattenExtended ==
  ASSUME NEW seqs, NEW n \in Nat, NEW g, Flattens(g, seqs, n)
  PROVE  \E f : Flattens(f, seqs, n + 1)
<1> DEFINE last == IF n + 1 = 1 THEN seqs[n + 1] ELSE g[n] \o seqs[n + 1]
           f    == [k \in 1 .. n + 1 |-> IF k = n + 1 THEN last ELSE g[k]]
<1>1. \A k \in 1 .. n : g[k] = IF k = 1 THEN seqs[k] ELSE g[k - 1] \o seqs[k]
  BY DEF Flattens
<1>2. ASSUME NEW k \in 1 .. n + 1
      PROVE  f[k] = IF k = 1 THEN seqs[k] ELSE f[k - 1] \o seqs[k]
  <2>1. CASE k = n + 1
    <3>1. f[k] = last
      BY <2>1
    <3>2. CASE k = 1
      BY <2>1, <3>1, <3>2
    <3>3. CASE k # 1
      <4>1. n \in 1 .. n + 1 /\ n # n + 1 /\ k - 1 = n
        BY <2>1, <3>3
      <4>2. f[k - 1] = g[n]
        BY <4>1
      <4> QED
        BY <2>1, <3>1, <3>3, <4>1, <4>2
    <3> QED
      BY <3>2, <3>3
  <2>2. CASE k # n + 1
    <3>1. k \in 1 .. n /\ f[k] = g[k]
      BY <2>2
    <3>2. k # 1 => k - 1 \in 1 .. n + 1 /\ k - 1 # n + 1
      BY <3>1
    <3>3. k # 1 => f[k - 1] = g[k - 1]
      BY <3>2
    <3> QED
      BY <1>1, <3>1, <3>3
  <2> QED
    BY <2>1, <2>2
<1>3. f = [k \in 1 .. n + 1 |-> f[k]]
  OBVIOUS
<1> HIDE DEF f
<1>4. Flattens(f, seqs, n + 1)
  BY <1>2, <1>3 DEF Flattens
<1> QED
  BY <1>4

\* There is such a function for any number of sequences: a least number without
\* one is not 0, and the one for the number before it can be extended.
LEMMA FlattenExists == ASSUME NEW seqs, NEW n \in Nat PROVE \E f : Flattens(f, seqs, n)
<1> DEFINE Without == {m \in Nat : ~ \E f : Flattens(f, seqs, m)}
<1>1. SUFFICES ASSUME Without # {} PROVE FALSE
  OBVIOUS
<1>2. PICK m \in Without : \A q \in Without : m <= q
  <2>1. Without \subseteq Nat
    OBVIOUS
  <2> HIDE DEF Without
  <2> QED
    BY <1>1, <2>1, LeastOf
<1>3. m # 0
  <2>1. Flattens([k \in 1 .. 0 |-> <<>>], seqs, 0)
    BY DEF Flattens
  <2> QED
    BY <2>1
<1>4. m \in Nat /\ m - 1 \in Nat /\ ~(m <= m - 1) /\ m - 1 + 1 = m
  BY <1>3
<1>5. \E g : Flattens(g, seqs, m - 1)
  BY <1>2, <1>4
<1> QED
  BY <1>4, <1>5, FlattenExtended

LEMMA FlattenIs ==
  ASSUME NEW seqs, Len(seqs) \in Nat, Len(seqs) # 0
  PROVE  \E f : Flattens(f, seqs, Len(seqs)) /\ Encoding!FlattenSeq(seqs) = f[Len(seqs)]
<1>1. PICK f : f = CHOOSE g : Flattens(g, seqs, Len(seqs))
  OBVIOUS
<1>2. Flattens(f, seqs, Len(seqs))
  BY <1>1, FlattenExists
<1>3. Encoding!FlattenSeq(seqs) = f[Len(seqs)]
  BY <1>1 DEF Encoding!FlattenSeq, Flattens
<1> QED
  BY <1>2, <1>3

LEMMA FlattenTyped ==
  ASSUME NEW S, NEW seqs \in Seq(Seq(S)), NEW f, Flattens(f, seqs, Len(seqs))
  PROVE  \A k \in 1 .. Len(seqs) : f[k] \in Seq(S)
<1> DEFINE Bad == {k \in 1 .. Len(seqs) : f[k] \notin Seq(S)}
<1>1. SUFFICES ASSUME Bad # {} PROVE FALSE
  OBVIOUS
<1>2. PICK m \in Bad : \A q \in Bad : m <= q
  <2>1. Bad \subseteq Nat
    OBVIOUS
  <2> HIDE DEF Bad
  <2> QED
    BY <1>1, <2>1, LeastOf
<1>3. m \in 1 .. Len(seqs) /\ f[m] \notin Seq(S) /\ seqs[m] \in Seq(S)
  OBVIOUS
<1>4. f[m] = IF m = 1 THEN seqs[m] ELSE f[m - 1] \o seqs[m]
  BY <1>3 DEF Flattens
<1>5. m # 1
  BY <1>3, <1>4
<1>6. m - 1 \in 1 .. Len(seqs) /\ ~(m <= m - 1)
  BY <1>3, <1>5
<1>7. f[m - 1] \in Seq(S)
  BY <1>2, <1>6
<1> QED
  BY <1>3, <1>4, <1>5, <1>7

\* More sequences at the end change nothing about those before.
LEMMA FlattenAgrees ==
  ASSUME NEW s, NEW t, NEW n \in Nat, NEW m \in Nat, n <= m,
         \A k \in 1 .. n : s[k] = t[k],
         NEW f, NEW g, Flattens(f, s, n), Flattens(g, t, m)
  PROVE  \A k \in 1 .. n : f[k] = g[k]
<1> DEFINE Bad == {k \in 1 .. n : f[k] # g[k]}
<1>1. SUFFICES ASSUME Bad # {} PROVE FALSE
  OBVIOUS
<1>2. PICK b \in Bad : \A q \in Bad : b <= q
  <2>1. Bad \subseteq Nat
    OBVIOUS
  <2> HIDE DEF Bad
  <2> QED
    BY <1>1, <2>1, LeastOf
<1>3. b \in 1 .. n /\ b \in 1 .. m /\ f[b] # g[b]
  OBVIOUS
<1>4. /\ f[b] = IF b = 1 THEN s[b] ELSE f[b - 1] \o s[b]
      /\ g[b] = IF b = 1 THEN t[b] ELSE g[b - 1] \o t[b]
  BY <1>3 DEF Flattens
<1>5. b # 1
  BY <1>3, <1>4
<1>6. b - 1 \in 1 .. n /\ ~(b <= b - 1)
  BY <1>3, <1>5
<1>7. f[b - 1] = g[b - 1]
  BY <1>2, <1>6
<1> QED
  BY <1>3, <1>4, <1>5, <1>7

\* The last of the sequences is put after what there is of the others.
LEMMA FlattenLast ==
  ASSUME NEW seqs, NEW m \in Nat, m # 0, NEW g, Flattens(g, seqs, m)
  PROVE  g[m] = IF m = 1 THEN seqs[m] ELSE g[m - 1] \o seqs[m]
<1>1. m \in 1 .. m
  OBVIOUS
<1> QED
  BY <1>1 DEF Flattens

\* FlattenSeq puts a further sequence after the others.
LEMMA FlattenAppended ==
  ASSUME NEW S, NEW seqs \in Seq(Seq(S)), NEW x \in Seq(S)
  PROVE  /\ Encoding!FlattenSeq(seqs) \in Seq(S)
         /\ Encoding!FlattenSeq(Append(seqs, x)) = Encoding!FlattenSeq(seqs) \o x
<1>1. PICK n \in Nat : n = Len(seqs)
  OBVIOUS
<1>2. PICK whole : whole = Append(seqs, x)
  OBVIOUS
<1>3. PICK m \in Nat : m = n + 1 /\ m # 0 /\ n <= m /\ m - 1 = n /\ (m = 1 <=> n = 0)
  BY <1>1
<1>4. /\ whole \in Seq(Seq(S)) /\ Len(whole) = m /\ whole[m] = x
      /\ \A k \in 1 .. n : seqs[k] = whole[k]
  BY <1>1, <1>2, <1>3
<1>5. PICK g : Flattens(g, whole, m) /\ Encoding!FlattenSeq(whole) = g[m]
  BY <1>3, <1>4, FlattenIs
<1>6. g[m] = IF n = 0 THEN x ELSE g[n] \o x
  <2>1. g[m] = IF m = 1 THEN whole[m] ELSE g[m - 1] \o whole[m]
    BY <1>3, <1>5, FlattenLast
  <2> QED
    BY <1>3, <1>4, <2>1
<1>7. CASE n = 0
  <2>1. seqs = <<>>
    BY <1>1, <1>7, EmptySeq
  <2>2. Encoding!FlattenSeq(seqs) = <<>>
    BY <1>1, <1>7, <2>1 DEF Encoding!FlattenSeq
  <2>3. <<>> \o x = x /\ <<>> \in Seq(S)
    BY ConcatEmptySeq, EmptySeq
  <2>4. Encoding!FlattenSeq(whole) = x
    BY <1>5, <1>6, <1>7
  <2> QED
    BY <1>2, <2>2, <2>3, <2>4
<1>8. CASE n # 0
  <2>1. PICK f : Flattens(f, seqs, n) /\ Encoding!FlattenSeq(seqs) = f[n]
    BY <1>1, <1>8, FlattenIs
  <2>2. n \in 1 .. n
    BY <1>1, <1>8
  <2>3. \A k \in 1 .. n : f[k] \in Seq(S)
    <3>1. Flattens(f, seqs, Len(seqs))
      BY <1>1, <2>1
    <3>2. \A k \in 1 .. Len(seqs) : f[k] \in Seq(S)
      BY <3>1, FlattenTyped
    <3> QED
      BY <1>1, <3>2
  <2>4. \A k \in 1 .. n : f[k] = g[k]
    <3>1. Flattens(f, seqs, n) /\ Flattens(g, whole, m) /\ n <= m
      BY <1>3, <1>5, <2>1
    <3>2. \A k \in 1 .. n : seqs[k] = whole[k]
      BY <1>4
    <3> HIDE <1>1, <1>2, <1>3, <1>4, <1>5
    <3> QED
      BY <3>1, <3>2, FlattenAgrees, SMTT(30)
  <2>5. f[n] = g[n] /\ f[n] \in Seq(S)
    BY <2>2, <2>3, <2>4
  <2>6. Encoding!FlattenSeq(whole) = f[n] \o x
    BY <1>5, <1>6, <1>8, <2>5
  <2> QED
    BY <1>2, <2>1, <2>5, <2>6
<1> QED
  BY <1>7, <1>8

LEMMA SubSeqGrows ==
  ASSUME NEW S, NEW s \in Seq(S), NEW n \in Nat, n < Len(s)
  PROVE  SubSeq(s, 1, n + 1) = Append(SubSeq(s, 1, n), s[n + 1])
<1>1. SubSeq(s, 1, n) \in Seq(S) /\ Len(SubSeq(s, 1, n)) = n
  BY SubSeqProperties
<1>2. \A k \in 1 .. n : SubSeq(s, 1, n)[k] = s[k]
  BY SubSeqProperties
<1>3. SubSeq(s, 1, n + 1) \in Seq(S) /\ Len(SubSeq(s, 1, n + 1)) = n + 1
  BY SubSeqProperties
<1>4. \A k \in 1 .. n + 1 : SubSeq(s, 1, n + 1)[k] = s[k]
  BY SubSeqProperties
<1> DEFINE a == SubSeq(s, 1, n)
           b == SubSeq(s, 1, n + 1)
<1> HIDE DEF a, b
<1>5. Append(a, s[n + 1]) \in Seq(S) /\ Len(Append(a, s[n + 1])) = n + 1
  BY <1>1 DEF a
<1>6. \A k \in 1 .. n + 1 : Append(a, s[n + 1])[k] = s[k]
  BY <1>1, <1>2 DEF a
<1>7. b = Append(a, s[n + 1])
  BY <1>3, <1>4, <1>5, <1>6, SeqEqual DEF b
<1> QED
  BY <1>7 DEF a, b

LEMMA SubSeqWhole ==
  ASSUME NEW S, NEW s \in Seq(S)
  PROVE  SubSeq(s, 1, Len(s)) = s
<1>1. Len(s) \in Nat
  OBVIOUS
<1> QED
  BY <1>1, SubSeqFull

\* One element more than s is s and the first of what follows it.
LEMMA SubSeqOneMore ==
  ASSUME NEW S, NEW s \in Seq(S), NEW r \in Seq(S), 0 < Len(r)
  PROVE  SubSeq(s \o r, 1, Len(s) + 1) = Append(s, r[1])
<1>1. PICK t : t = s \o r
  OBVIOUS
<1>2. t \in Seq(S) /\ Len(t) = Len(s) + Len(r) /\ Len(s) \in Nat /\ Len(r) \in Nat
  BY <1>1, ConcatProperties
<1>3. \A k \in 1 .. Len(t) : t[k] = IF k <= Len(s) THEN s[k] ELSE r[k - Len(s)]
  BY <1>1, ConcatProperties
<1>4. t[Len(s) + 1] = r[1]
  BY <1>2, <1>3, SMTT(30)
<1>5. SubSeq(t, 1, Len(s)) = s
  <2>1. SubSeq(t, 1, Len(s)) \in Seq(S) /\ Len(SubSeq(t, 1, Len(s))) = Len(s)
    BY <1>2, SubSeqProperties
  <2>2. \A k \in 1 .. Len(s) : SubSeq(t, 1, Len(s))[k] = t[k] /\ t[k] = s[k]
    BY <1>2, <1>3, SubSeqProperties
  <2> QED
    BY <2>1, <2>2, SeqEqual
<1>6. SubSeq(t, 1, Len(s) + 1) = Append(SubSeq(t, 1, Len(s)), t[Len(s) + 1])
  BY <1>2, SubSeqGrows
<1> QED
  BY <1>1, <1>4, <1>5, <1>6

\* What one of the codec's results can hold.
Parts == Elements \cup Scalars \cup IllFormed \cup {Encoding!Replacement, None}

\* All that is promised of the results of the calls cs.
Flat(cs) == Encoding!FlattenSeq([k \in DOMAIN cs |-> Encoding!Promised(cs[k])])

\* The n-th element of the result whose bytes the iterator x holds.
Part(x, n) == IF mode = "report" /\ x.error # None THEN x.error ELSE x.buf[n]

\* The iterator x holds the result r.
Shows(x, r) == Len(r) = Len(x.buf) /\ \A n \in 1 .. Len(x.buf) : r[n] = Part(x, n)

\* Iterator i has stood on all that is promised of its codec's results, apart
\* from what it has still to give of the last one, which it holds.
EYields(i) ==
  it[i] # Unused =>
    IF it[i].done THEN seen[i] = Flat(calls[i])
    ELSE \E front, r \in Seq(Parts) :
           /\ Flat(calls[i]) = front \o r
           /\ Shows(it[i], r)
           /\ seen[i] = SubSeq(front \o r, 1, Len(front) + it[i].pos + 1)

\* What is promised of a result is a sequence.
LEMMA PromisedTyped == ASSUME NEW c \in ECalls PROVE Encoding!Promised(c) \in Seq(Parts)
<1>1. /\ c[2] \in Scalars \cup IllFormed \cup {Encoding!Replacement, None}
      /\ c[3].bytes \in CodecBytes \cup {<<>>} /\ c[3].error \in BOOLEAN
  BY DEF ECalls
<1>2. c[3].bytes \in Seq(Parts)
  <2>1. c[3].bytes \in Seq(Values \cup {"?"})
    BY <1>1, BuffersAreSequences
  <2>2. Values \cup {"?"} \subseteq Parts
    BY DEF Parts, Elements
  <2> QED
    BY <2>1, <2>2
<1>3. c[2] \in Parts /\ "unmapped_codepoint" \in Parts /\ "?" \in Parts
  BY <1>1 DEF Parts, Elements, Encoding!Errors
<1>4. <<c[2]>> \in Seq(Parts) /\ <<"unmapped_codepoint">> \in Seq(Parts) /\ <<"?">> \in Seq(Parts)
  BY <1>3
<1> QED
  BY <1>2, <1>4 DEF Encoding!Promised

\* A call adds what is promised of its result.
LEMMA FlatAppended ==
  ASSUME NEW cs \in Seq(ECalls), NEW c \in ECalls
  PROVE  /\ Flat(cs) \in Seq(Parts)
         /\ Flat(Append(cs, c)) = Flat(cs) \o Encoding!Promised(c)
<1>1. PICK a : a = [k \in DOMAIN cs |-> Encoding!Promised(cs[k])]
  OBVIOUS
<1>2. PICK b : b = [k \in DOMAIN Append(cs, c) |-> Encoding!Promised(Append(cs, c)[k])]
  OBVIOUS
<1>3. PICK p : p = Encoding!Promised(c)
  OBVIOUS
<1>4. /\ DOMAIN cs = 1 .. Len(cs) /\ Len(cs) \in Nat
      /\ DOMAIN Append(cs, c) = 1 .. Len(cs) + 1
      /\ \A k \in 1 .. Len(cs) : cs[k] \in ECalls /\ Append(cs, c)[k] = cs[k]
      /\ Append(cs, c)[Len(cs) + 1] = c
  OBVIOUS
<1>5. p \in Seq(Parts) /\ \A k \in 1 .. Len(cs) : Encoding!Promised(cs[k]) \in Seq(Parts)
  BY <1>3, <1>4, PromisedTyped
<1>6. a \in [1 .. Len(cs) -> Seq(Parts)]
  BY <1>1, <1>4, <1>5
<1>7. a \in Seq(Seq(Parts)) /\ Len(a) = Len(cs)
  BY <1>4, <1>6, SeqDef, LenProperties
<1>8. b = Append(a, p)
  <2>1. /\ Append(a, p) \in Seq(Seq(Parts)) /\ Len(Append(a, p)) = Len(cs) + 1
        /\ \A k \in 1 .. Len(cs) : Append(a, p)[k] = a[k]
        /\ Append(a, p)[Len(cs) + 1] = p
    <3>1. PICK S : S = Seq(Parts)
      OBVIOUS
    <3>2. a \in Seq(S) /\ p \in S
      BY <1>5, <1>7, <3>1
    <3>3. /\ Append(a, p) \in Seq(S) /\ Len(Append(a, p)) = Len(a) + 1
          /\ \A k \in 1 .. Len(a) : Append(a, p)[k] = a[k]
          /\ Append(a, p)[Len(a) + 1] = p
      BY <3>2, AppendProperties
    <3> QED
      BY <1>7, <3>1, <3>3
  <2>2. \A k \in 1 .. Len(cs) + 1 : b[k] = Append(a, p)[k] /\ b[k] \in Seq(Parts)
    <3> TAKE k \in 1 .. Len(cs) + 1
    <3>1. b[k] = Encoding!Promised(Append(cs, c)[k])
      BY <1>2, <1>4
    <3>2. CASE k = Len(cs) + 1
      BY <1>3, <1>4, <1>5, <2>1, <3>1, <3>2
    <3>3. CASE k # Len(cs) + 1
      <4>1. k \in 1 .. Len(cs)
        BY <1>4, <3>3
      <4>2. a[k] = Encoding!Promised(cs[k])
        BY <1>1, <1>4, <4>1
      <4>3. b[k] = Encoding!Promised(cs[k])
        BY <1>4, <3>1, <4>1
      <4> QED
        BY <1>5, <2>1, <4>1, <4>2, <4>3
    <3> QED
      BY <3>2, <3>3
  <2>3. b \in [1 .. Len(cs) + 1 -> Seq(Parts)]
    BY <1>2, <1>4, <2>2
  <2>4. b \in Seq(Seq(Parts)) /\ Len(b) = Len(cs) + 1
    BY <1>4, <2>3, SeqDef, LenProperties
  <2> QED
    BY <2>1, <2>2, <2>4, SeqEqual
<1>9. Encoding!FlattenSeq(a) \in Seq(Parts) /\ Encoding!FlattenSeq(Append(a, p)) = Encoding!FlattenSeq(a) \o p
  BY <1>5, <1>7, FlattenAppended
<1>10. Flat(cs) = Encoding!FlattenSeq(a) /\ Flat(Append(cs, c)) = Encoding!FlattenSeq(b)
  BY <1>1, <1>2 DEF Flat
<1> QED
  BY <1>3, <1>8, <1>9, <1>10

\* Without calls nothing is promised.
LEMMA FlatEmpty == Flat(<<>>) = <<>>
<1>1. PICK a : a = [k \in DOMAIN <<>> |-> Encoding!Promised(<<>>[k])]
  OBVIOUS
<1>2. a = <<>>
  BY <1>1
<1>3. Encoding!FlattenSeq(<<>>) = <<>>
  <2>1. Len(<<>>) = 0
    BY EmptySeq
  <2> QED
    BY <2>1 DEF Encoding!FlattenSeq
<1> QED
  BY <1>1, <1>2, <1>3 DEF Flat

\* The promises are a sequence.
LEMMA FlatTyped == ASSUME NEW cs \in Seq(ECalls) PROVE Flat(cs) \in Seq(Parts)
<1>1. CASE Len(cs) = 0
  <2>1. cs = <<>>
    BY <1>1, EmptySeq
  <2> QED
    BY <2>1, FlatEmpty, EmptySeq
<1>2. CASE Len(cs) # 0
  <2>1. Len(cs) \in 1 .. Len(cs)
    BY <1>2
  <2>2. cs[Len(cs)] \in ECalls
    BY <2>1
  <2> QED
    BY <2>2, FlatAppended
<1> QED
  BY <1>1, <1>2

\* What is promised does not depend on what changes.
LEMMA FlatKept ==
  ASSUME UNCHANGED mode, NEW i, NEW cs, cs = calls'[i]
  PROVE  Flat(calls[i])' = Flat(cs)
<1>1. \A c : Encoding!Promised(c)' = Encoding!Promised(c)
  BY DEF Encoding!Promised
<1> QED
  BY <1>1 DEF Flat

\* Before load() makes a call, everything has been given.
LEMMA EAllGiven ==
  ASSUME EType, NEW i \in Iterators, NEW x \in Encoding!Loading(i), EYields(i)
  PROVE  seen[i] = Flat(calls[i])
<1>1. /\ x \in EIterators /\ x.done = FALSE
      /\ it[i] # Unused => x = it[i]
  BY ELoading
<1>2. CASE it[i] = Unused
  BY <1>2, FlatEmpty DEF EType
<1>3. CASE it[i] # Unused
  <2>1. x = it[i] /\ x.pos + 1 = Len(x.buf)
    BY <1>3 DEF Encoding!Loading, Encoding!Unused, Unused
  <2>2. PICK front, r \in Seq(Parts) :
           /\ Flat(calls[i]) = front \o r
           /\ Len(r) = Len(x.buf)
           /\ seen[i] = SubSeq(front \o r, 1, Len(front) + x.pos + 1)
    BY <1>1, <1>3, <2>1 DEF EYields, Shows
  <2>3. PICK whole : whole = front \o r
    OBVIOUS
  <2>4. whole \in Seq(Parts) /\ Len(whole) = Len(front) + Len(r)
    BY <2>3, ConcatProperties
  <2>5. Len(front) + x.pos + 1 = Len(whole)
    <3>1. x.pos \in Nat /\ Len(front) \in Nat
      BY <1>1, EFields
    <3>2. Len(r) = x.pos + 1
      BY <2>1, <2>2
    <3> QED
      BY <2>4, <3>1, <3>2
  <2>6. seen[i] = SubSeq(whole, 1, Len(whole))
    BY <2>2, <2>3, <2>5
  <2> QED
    BY <2>2, <2>3, <2>4, <2>6, SubSeqWhole
<1> QED
  BY <1>2, <1>3

\* An iterator comes to stand on the first byte of a further result.
LEMMA EGivesFirst ==
  ASSUME EType, NEW i \in Iterators, NEW c \in ECalls, NEW y \in EIterators,
         seen[i] = Flat(calls[i]), y.pos = 0, y.done = FALSE, 0 < Len(y.buf),
         Shows(y, Encoding!Promised(c)), Encoding!StandsOn(i, y),
         calls' = [calls EXCEPT ![i] = Append(@, c)], UNCHANGED mode
  PROVE  EYields(i)'
<1>1. PICK r : r = Encoding!Promised(c)
  OBVIOUS
<1>2. PICK s : s = Flat(calls[i])
  OBVIOUS
<1>3. s \in Seq(Parts) /\ r \in Seq(Parts) /\ Flat(Append(calls[i], c)) = s \o r
  BY <1>1, <1>2, FlatAppended, PromisedTyped DEF EType
<1>4. /\ it'[i] = y /\ seen'[i] = Append(s, Encoding!Element(y))
      /\ calls'[i] = Append(calls[i], c)
  BY <1>2 DEF Encoding!StandsOn, EType
<1>5. Len(y.buf) \in Nat /\ 1 \in 1 .. Len(y.buf)
  BY BuffersAreSequences DEF EIterators
<1>6. Len(r) = Len(y.buf) /\ r[1] = Encoding!Element(y)
  BY <1>1, <1>5 DEF Shows, Part, Encoding!Element, Encoding!None, None
<1>7. SubSeq(s \o r, 1, Len(s) + 1) = Append(s, r[1])
  BY <1>3, <1>6, SubSeqOneMore
<1>8. Len(s) + y.pos + 1 = Len(s) + 1
  BY <1>3
<1>9. seen'[i] = SubSeq(s \o r, 1, Len(s) + y.pos + 1)
  BY <1>4, <1>6, <1>7, <1>8
<1>10. Flat(calls[i])' = s \o r
  <2>1. PICK cs : cs = calls'[i]
    OBVIOUS
  <2>2. Flat(calls[i])' = Flat(cs)
    BY <2>1, FlatKept
  <2> QED
    BY <1>3, <1>4, <2>1, <2>2
<1>11. Shows(it[i], r)'
  <2>1. \A n : Part(it[i], n)' = Part(y, n)
    BY <1>4 DEF Part, None
  <2>2. Shows(y, r)
    BY <1>1
  <2> QED
    BY <1>4, <2>1, <2>2 DEF Shows
<1>12. it'[i].done = FALSE
  BY <1>4
<1>13. \E f, g \in Seq(Parts) :
         /\ Flat(calls[i])' = f \o g
         /\ Shows(it[i], g)'
         /\ seen'[i] = SubSeq(f \o g, 1, Len(f) + it'[i].pos + 1)
  BY <1>3, <1>4, <1>9, <1>10, <1>11
<1>14. Seq(Parts)' = Seq(Parts)
  OBVIOUS
<1> QED
  BY <1>12, <1>13, <1>14 DEF EYields

\* An iterator reaches the end, and there is nothing to give.
LEMMA EGivesNothing ==
  ASSUME EType, NEW i \in Iterators, NEW y, seen[i] = Flat(calls[i]),
         y.done = TRUE, it' = [it EXCEPT ![i] = y], UNCHANGED <<seen, mode>>,
         \/ calls' = calls
         \/ \E c \in ECalls : /\ calls' = [calls EXCEPT ![i] = Append(@, c)]
                              /\ Encoding!Promised(c) = <<>>
  PROVE  EYields(i)'
<1>1. it'[i].done = TRUE
  BY DEF EType
<1>2. PICK cs : cs = calls'[i]
  OBVIOUS
<1>3. Flat(calls[i])' = Flat(cs)
  BY <1>2, FlatKept
<1>4. Flat(cs) = Flat(calls[i])
  <2>1. CASE calls' = calls
    BY <1>2, <2>1
  <2>2. CASE calls' # calls
    <3>1. PICK c \in ECalls : /\ calls' = [calls EXCEPT ![i] = Append(@, c)]
                              /\ Encoding!Promised(c) = <<>>
      BY <2>2
    <3>2. cs = Append(calls[i], c) /\ calls[i] \in Seq(ECalls)
      BY <1>2, <3>1 DEF EType
    <3>3. Flat(cs) = Flat(calls[i]) \o <<>> /\ Flat(calls[i]) \in Seq(Parts)
      BY <3>1, <3>2, FlatAppended
    <3> QED
      BY <3>3, ConcatEmptySeq
  <2> QED
    BY <2>1, <2>2
<1> QED
  BY <1>1, <1>3, <1>4 DEF EYields

\* operator++ gives the next element of the result it holds.
LEMMA EGivesNext ==
  ASSUME EType, NEW i \in Iterators, EYields(i), Encoding!NextByte(i)
  PROVE  EYields(i)'
<1>1. PICK x : x = it[i]
  OBVIOUS
<1>2. /\ x # Unused /\ x \in EIterators /\ x.done = FALSE /\ x.pos + 1 < Len(x.buf)
      /\ UNCHANGED <<mode, calls>>
  BY <1>1, EFields DEF Encoding!NextByte, Encoding!Unused, Unused, Encoding!own, EType
<1>3. PICK y : y = [x EXCEPT !.pos = @ + 1]
  OBVIOUS
<1>4. /\ y.done = FALSE /\ y.pos = x.pos + 1 /\ y.buf = x.buf /\ y.error = x.error
  BY <1>2, <1>3 DEF EIterators
<1>5. it'[i] = y /\ seen'[i] = Append(seen[i], Encoding!Element(y))
  BY <1>1, <1>3 DEF Encoding!NextByte, Encoding!StandsOn, EType
<1>6. PICK f, r \in Seq(Parts) :
        /\ Flat(calls[i]) = f \o r
        /\ Shows(x, r)
        /\ seen[i] = SubSeq(f \o r, 1, Len(f) + x.pos + 1)
  BY <1>1, <1>2 DEF EYields
<1>7. PICK whole : whole = f \o r
  OBVIOUS
<1>8. /\ whole \in Seq(Parts) /\ Len(whole) = Len(f) + Len(r)
      /\ \A k \in 1 .. Len(f) + Len(r) : whole[k] = IF k <= Len(f) THEN f[k] ELSE r[k - Len(f)]
      /\ Len(f) \in Nat /\ Len(r) \in Nat
  BY <1>7, ConcatProperties
<1>8a. Len(r) = Len(x.buf)
  BY <1>6 DEF Shows
<1>9. PICK n \in Nat : n = Len(f) + x.pos + 1
  BY <1>2, <1>8, EFields
<1>10. n < Len(whole) /\ n + 1 \in 1 .. Len(f) + Len(r) /\ ~(n + 1 <= Len(f))
       /\ n + 1 - Len(f) = x.pos + 2 /\ x.pos + 2 \in 1 .. Len(x.buf)
  <2>1. x.pos \in Nat /\ Len(f) \in Nat /\ Len(r) \in Nat /\ Len(whole) = Len(f) + Len(r)
    BY <1>2, <1>8, EFields
  <2>2. x.pos + 1 < Len(r) /\ n = Len(f) + x.pos + 1
    BY <1>2, <1>9, <1>8a
  <2>3. Len(whole) \in Nat /\ n < Len(whole) /\ n + 1 - Len(f) = x.pos + 2
    BY <2>1, <2>2
  <2>4. x.pos + 2 \in 1 .. Len(r) /\ n + 1 \in 1 .. Len(f) + Len(r) /\ ~(n + 1 <= Len(f))
    BY <2>1, <2>2, SMTT(30)
  <2> QED
    BY <1>8a, <2>3, <2>4
<1>11. whole[n + 1] = Encoding!Element(y)
  <2>1. whole[n + 1] = r[x.pos + 2]
    BY <1>8, <1>10
  <2>2. r[x.pos + 2] = Part(x, x.pos + 2)
    BY <1>6, <1>10, SMTT(30) DEF Shows
  <2>3. y.pos + 1 = x.pos + 2
    BY <1>2, <1>4, EFields
  <2> QED
    BY <1>4, <2>1, <2>2, <2>3 DEF Part, Encoding!Element, Encoding!None, None
<1>12. SubSeq(whole, 1, n + 1) = Append(SubSeq(whole, 1, n), whole[n + 1])
  BY <1>8, <1>9, <1>10, SubSeqGrows
<1>13. n + 1 = Len(f) + y.pos + 1
  BY <1>2, <1>4, <1>8, <1>9, EFields
<1>14. seen'[i] = SubSeq(f \o r, 1, Len(f) + it'[i].pos + 1)
  BY <1>5, <1>6, <1>7, <1>9, <1>11, <1>12, <1>13
<1>15. Shows(it[i], r)'
  <2>1. \A m : Part(it[i], m)' = Part(x, m)
    BY <1>2, <1>4, <1>5 DEF Part, None
  <2>2. it'[i].buf = x.buf
    BY <1>4, <1>5
  <2> QED
    BY <1>6, <2>1, <2>2 DEF Shows
<1>16. Flat(calls[i])' = f \o r
  <2>1. PICK cs : cs = calls'[i]
    OBVIOUS
  <2>2. Flat(calls[i])' = Flat(cs)
    BY <1>2, <2>1, FlatKept
  <2> QED
    BY <1>2, <1>6, <2>1, <2>2
<1>17. it'[i].done = FALSE /\ Seq(Parts)' = Seq(Parts)
  BY <1>4, <1>5
<1> QED
  BY <1>14, <1>15, <1>16, <1>17 DEF EYields

\* What becomes of a result holds what is promised of it.
LEMMA EUsedShows ==
  ASSUME NEW x \in EIterators, NEW c, c[1] # "none", c[3].error \in BOOLEAN
  PROVE  Shows(Encoding!Use(x, c[3]), Encoding!Promised(c))
<1>1. PICK o : o = c[3]
  OBVIOUS
<1>2. CASE o.error /\ (mode = "report" \/ o.bytes = <<>>)
  <2>1. PICK y : y = Encoding!Failure(x, "unmapped_codepoint")
    OBVIOUS
  <2>2. y.buf = <<"?">> /\ y.error = "unmapped_codepoint" /\ Encoding!Use(x, o) = y
    BY <1>2, <2>1 DEF Encoding!Failure, EIterators, Encoding!Use
  <2>3. CASE mode = "report"
    <3>1. Encoding!Promised(c) = <<"unmapped_codepoint">>
      BY <1>1, <1>2, <2>3 DEF Encoding!Promised
    <3>2. \A n \in 1 .. 1 : Part(y, n) = <<"unmapped_codepoint">>[n]
      BY <2>2, <2>3 DEF Part, None
    <3>3. Len(Encoding!Promised(c)) = 1 /\ Len(y.buf) = 1
      BY <2>2, <3>1
    <3>4. Shows(y, Encoding!Promised(c))
      BY <3>1, <3>2, <3>3 DEF Shows
    <3> QED
      BY <1>1, <2>2, <3>4
  <2>4. CASE mode # "report"
    <3>1. Encoding!Promised(c) = <<"?">>
      BY <1>1, <1>2, <2>4 DEF Encoding!Promised
    <3>2. \A n \in 1 .. 1 : Part(y, n) = <<"?">>[n]
      BY <2>2, <2>4 DEF Part
    <3> QED
      BY <1>1, <2>2, <3>1, <3>2 DEF Shows
  <2> QED
    BY <2>3, <2>4
<1>3. CASE ~(o.error /\ (mode = "report" \/ o.bytes = <<>>))
  <2>1. PICK y : y = [x EXCEPT !.buf = o.bytes, !.pos = 0, !.error = None]
    OBVIOUS
  <2>2. y.buf = o.bytes /\ y.error = None /\ Encoding!Use(x, o) = y
    BY <1>3, <2>1 DEF Encoding!Use, EIterators, Encoding!None, None
  <2>3. Encoding!Promised(c) = o.bytes
    BY <1>1, <1>3 DEF Encoding!Promised
  <2> QED
    BY <1>1, <2>2, <2>3 DEF Shows, Part
<1> QED
  BY <1>2, <1>3

\* load() gives the first of what the codec's next result promises.
LEMMA ELoadGives ==
  ASSUME EType, NEW i \in Iterators, EYields(i), Encoding!Load(i)
  PROVE  EYields(i)'
<1>1. CASE Encoding!LoadIllFormed(i)
  <2>1. PICK x \in Encoding!Loading(i) :
            /\ x.current < Length /\ mode = "report" /\ base[x.current + 1] \in IllFormed
            /\ Encoding!StandsOn(i, Encoding!Failure([x EXCEPT !.current = @ + 1],
                                                     base[x.current + 1]))
            /\ calls' = [calls EXCEPT ![i] =
                           Append(@, <<"none", base[x.current + 1], Encoding!Nullopt(x.codec)>>)]
            /\ UNCHANGED mode
    BY <1>1 DEF Encoding!LoadIllFormed, Encoding!own
  <2>2. x \in EIterators /\ x.done = FALSE /\ seen[i] = Flat(calls[i])
    BY ELoading, EAllGiven
  <2>3. PICK u \in IllFormed : u = base[x.current + 1]
    BY <2>1
  <2>4. PICK c : c = <<"none", u, Encoding!Nullopt(x.codec)>>
    OBVIOUS
  <2>5. c \in ECalls
    <3>1. Encoding!Nullopt(x.codec) \in [engaged : BOOLEAN, owes : Codecs, error : BOOLEAN,
                                         bytes : CodecBytes \cup {<<>>}]
      BY <2>2, EFields DEF Encoding!Nullopt
    <3> QED
      BY <2>4, <3>1 DEF ECalls
  <2>6. PICK y : y = Encoding!Failure([x EXCEPT !.current = @ + 1], u)
    OBVIOUS
  <2>7. y = [kind |-> "iterator", current |-> x.current + 1, codec |-> x.codec,
             buf |-> <<"?">>, pos |-> 0, error |-> u, done |-> FALSE]
    BY <2>2, <2>6 DEF Encoding!Failure, EIterators
  <2>8. y \in EIterators
    <3>1. x.current + 1 \in 0 .. Length
      BY <2>1, <2>2, EFields, ViewAssumption
    <3> QED
      BY <2>2, <2>7, <3>1, EFields DEF EIterators, Encoding!Errors
  <2>9. Shows(y, Encoding!Promised(c))
    <3>1. Encoding!Promised(c) = <<u>>
      BY <2>4 DEF Encoding!Promised
    <3>2. \A n \in 1 .. 1 : Part(y, n) = u
      BY <2>1, <2>7, EncodeAssumption DEF Part
    <3> QED
      BY <2>7, <3>1, <3>2 DEF Shows
  <2>10. y.pos = 0 /\ y.done = FALSE /\ 0 < Len(y.buf)
    BY <2>7
  <2>11. Encoding!StandsOn(i, y) /\ calls' = [calls EXCEPT ![i] = Append(@, c)]
    BY <2>1, <2>3, <2>4, <2>6
  <2> QED
    BY <2>1, <2>2, <2>5, <2>8, <2>9, <2>10, <2>11, EGivesFirst
<1>2. CASE Encoding!LoadScalar(i)
  <2>1. PICK x \in Encoding!Loading(i) :
            /\ x.current < Length
            /\ UNCHANGED mode
            /\ \E o \in Encoding!EncodeOutcomes :
                 /\ calls' = [calls EXCEPT ![i] =
                       Append(@, <<"encode_one", Encoding!Validate(base[x.current + 1]), o>>)]
                 /\ Encoding!StandsOn(i, Encoding!Use([x EXCEPT !.current = @ + 1,
                                                                !.codec = o.owes], o))
    BY <1>2 DEF Encoding!LoadScalar, Encoding!Does, Encoding!own
  <2>2. x \in EIterators /\ x.done = FALSE /\ seen[i] = Flat(calls[i])
    BY ELoading, EAllGiven
  <2>3. PICK o \in Encoding!EncodeOutcomes :
          /\ calls' = [calls EXCEPT ![i] =
                Append(@, <<"encode_one", Encoding!Validate(base[x.current + 1]), o>>)]
          /\ Encoding!StandsOn(i, Encoding!Use([x EXCEPT !.current = @ + 1,
                                                         !.codec = o.owes], o))
    BY <2>1
  <2>4. PICK c : c = <<"encode_one", Encoding!Validate(base[x.current + 1]), o>>
    OBVIOUS
  <2>5. /\ o \in [engaged : BOOLEAN, owes : Codecs, error : BOOLEAN,
                  bytes : CodecBytes \cup {<<>>}]
        /\ o.owes \in Codecs /\ o.error \in BOOLEAN /\ o.bytes \in CodecBytes
        /\ o.error \/ o.bytes # <<>>
    BY DEF Encoding!EncodeOutcomes, Encoding!Results, Encoding!Codecs, Codecs
  <2>6. x.current + 1 \in 1 .. Length /\ x.current + 1 \in 0 .. Length
    BY <2>1, <2>2, EFields, ViewAssumption
  <2>7. c \in ECalls
    <3>1. Encoding!Validate(base[x.current + 1])
            \in Scalars \cup IllFormed \cup {Encoding!Replacement}
      BY <2>6 DEF EType, Encoding!Validate
    <3> QED
      BY <2>4, <2>5, <3>1 DEF ECalls
  <2>8. PICK z : z = [x EXCEPT !.current = @ + 1, !.codec = o.owes]
    OBVIOUS
  <2>9. z \in EIterators /\ z.done = FALSE
    <3>1. z = [kind |-> x.kind, current |-> x.current + 1, codec |-> o.owes, buf |-> x.buf,
               pos |-> x.pos, error |-> x.error, done |-> x.done]
      BY <2>2, <2>8 DEF EIterators
    <3> QED
      BY <2>2, <2>5, <2>6, <3>1 DEF EIterators
  <2>10. PICK y : y = Encoding!Use(z, o)
    OBVIOUS
  <2>11. y \in EIterators /\ y.pos = 0 /\ y.done = FALSE /\ 0 < Len(y.buf)
    BY <2>5, <2>9, <2>10, EUsed
  <2>12. c[1] # "none" /\ c[3] = o
    BY <2>4
  <2>13. Shows(y, Encoding!Promised(c))
    BY <2>5, <2>9, <2>10, <2>12, EUsedShows
  <2>14. Encoding!StandsOn(i, y) /\ calls' = [calls EXCEPT ![i] = Append(@, c)]
    BY <2>3, <2>4, <2>8, <2>10
  <2> QED
    BY <2>1, <2>2, <2>7, <2>11, <2>13, <2>14, EGivesFirst
<1>3. CASE Encoding!LoadFlush(i)
  <2>1. PICK x \in Encoding!Loading(i) :
            /\ UNCHANGED mode
            /\ \E o \in Encoding!FlushOutcomes(x.codec) :
                 /\ calls' = [calls EXCEPT ![i] = Append(@, <<"flush", None, o>>)]
                 /\ IF Encoding!OwesNothing(o)
                    THEN Encoding!Stop(i, [x EXCEPT !.codec = o.owes])
                    ELSE Encoding!StandsOn(i, Encoding!Use([x EXCEPT !.codec = o.owes], o))
    BY <1>3 DEF Encoding!LoadFlush, Encoding!Does, Encoding!own, Encoding!None, None
  <2>2. x \in EIterators /\ x.done = FALSE /\ seen[i] = Flat(calls[i])
    BY ELoading, EAllGiven
  <2>3. PICK o \in Encoding!FlushOutcomes(x.codec) :
          /\ calls' = [calls EXCEPT ![i] = Append(@, <<"flush", None, o>>)]
          /\ IF Encoding!OwesNothing(o)
             THEN Encoding!Stop(i, [x EXCEPT !.codec = o.owes])
             ELSE Encoding!StandsOn(i, Encoding!Use([x EXCEPT !.codec = o.owes], o))
    BY <2>1
  <2>4. PICK c : c = <<"flush", None, o>>
    OBVIOUS
  <2>5. /\ o \in [engaged : BOOLEAN, owes : Codecs, error : BOOLEAN,
                  bytes : CodecBytes \cup {<<>>}]
        /\ o.owes \in Codecs /\ o.error \in BOOLEAN
        /\ ~Encoding!OwesNothing(o) =>
              o.bytes \in CodecBytes /\ (o.error \/ o.bytes # <<>>)
    BY <2>2, EFields, EFlushOutcome
  <2>6. c \in ECalls
    BY <2>4, <2>5 DEF ECalls
  <2>7. PICK z : z = [x EXCEPT !.codec = o.owes]
    OBVIOUS
  <2>8. z \in EIterators /\ z.done = FALSE
    BY <2>2, <2>5, <2>7 DEF EIterators
  <2>9. c[1] # "none" /\ c[3] = o
    BY <2>4
  <2>10. calls' = [calls EXCEPT ![i] = Append(@, c)]
    BY <2>3, <2>4
  <2>11. CASE Encoding!OwesNothing(o)
    <3>1. PICK y : y = [z EXCEPT !.done = TRUE]
      OBVIOUS
    <3>2. y.done = TRUE
      BY <2>8, <3>1 DEF EIterators
    <3>3. it' = [it EXCEPT ![i] = y] /\ UNCHANGED seen
      BY <2>3, <2>7, <2>11, <3>1 DEF Encoding!Stop
    <3>4. ~o.error /\ o.bytes = <<>>
      <4>1. CASE o \in Encoding!Results(0 .. x.codec - 1)
        <5>1. o.engaged = TRUE
          BY <4>1 DEF Encoding!Results
        <5> QED
          BY <2>11, <5>1 DEF Encoding!OwesNothing
      <4>2. CASE o = Encoding!Nullopt(x.codec)
        BY <4>2 DEF Encoding!Nullopt
      <4>3. CASE o = [Encoding!Nullopt(x.codec) EXCEPT !.engaged = TRUE]
        BY <4>3 DEF Encoding!Nullopt
      <4> QED
        BY <4>1, <4>2, <4>3 DEF Encoding!FlushOutcomes
    <3>5. Encoding!Promised(c) = <<>>
      BY <2>9, <3>4 DEF Encoding!Promised
    <3> QED
      BY <2>1, <2>2, <2>6, <2>10, <3>2, <3>3, <3>5, EGivesNothing
  <2>12. CASE ~Encoding!OwesNothing(o)
    <3>1. PICK y : y = Encoding!Use(z, o)
      OBVIOUS
    <3>2. y \in EIterators /\ y.pos = 0 /\ y.done = FALSE /\ 0 < Len(y.buf)
      BY <2>5, <2>8, <2>12, <3>1, EUsed
    <3>3. Shows(y, Encoding!Promised(c))
      BY <2>5, <2>8, <2>9, <3>1, EUsedShows
    <3>4. Encoding!StandsOn(i, y)
      BY <2>3, <2>7, <2>12, <3>1
    <3> QED
      BY <2>1, <2>2, <2>6, <2>10, <3>2, <3>3, <3>4, EGivesFirst
  <2> QED
    BY <2>11, <2>12
<1>4. CASE Encoding!LoadEnd(i)
  <2>1. PICK x \in Encoding!Loading(i) :
          Encoding!Stop(i, x) /\ UNCHANGED <<calls, mode>>
    BY <1>4 DEF Encoding!LoadEnd, Encoding!own
  <2>2. x \in EIterators /\ seen[i] = Flat(calls[i])
    BY ELoading, EAllGiven
  <2>3. PICK y : y = [x EXCEPT !.done = TRUE]
    OBVIOUS
  <2>4. y.done = TRUE
    BY <2>2, <2>3 DEF EIterators
  <2>5. it' = [it EXCEPT ![i] = y] /\ UNCHANGED seen
    BY <2>1, <2>3 DEF Encoding!Stop
  <2> QED
    BY <2>1, <2>2, <2>4, <2>5, EGivesNothing
<1> QED
  BY <1>1, <1>2, <1>3, <1>4 DEF Encoding!Load

\* Iterators that did not move, and copies of them, have given what they had.
LEMMA EYieldsElsewhere ==
  ASSUME NEW i, NEW j, EYields(i), UNCHANGED mode,
         calls'[j] = calls[i], it'[j] = it[i], seen'[j] = seen[i]
  PROVE  EYields(j)'
<1>1. PICK cs : cs = calls'[j]
  OBVIOUS
<1>2. Flat(calls[j])' = Flat(calls[i])
  BY <1>1, FlatKept
<1>3. PICK x : x = it[i]
  OBVIOUS
<1>4. \A r : Shows(it[j], r)' = Shows(it[i], r)
  <2>1. \A n : Part(it[j], n)' = Part(it[i], n)
    BY DEF Part
  <2> QED
    BY <2>1 DEF Shows
<1>5. Seq(Parts)' = Seq(Parts) /\ Unused' = Unused
  OBVIOUS
<1> QED
  BY <1>2, <1>4, <1>5 DEF EYields

\* load() and operator++ change one iterator.
LEMMA EMovesOne ==
  ASSUME EType, NEW i \in Iterators, Encoding!Load(i) \/ Encoding!NextByte(i),
         NEW j \in Iterators, j # i
  PROVE  /\ it'[j] = it[j] /\ seen'[j] = seen[j] /\ calls'[j] = calls[j]
         /\ UNCHANGED mode
<1>1. /\ \E y : it' = [it EXCEPT ![i] = y]
      /\ seen' = seen \/ \E e : seen' = [seen EXCEPT ![i] = Append(@, e)]
      /\ calls' = calls \/ \E c : calls' = [calls EXCEPT ![i] = Append(@, c)]
      /\ UNCHANGED mode
  <2>1. CASE Encoding!LoadIllFormed(i)
    BY <2>1 DEF Encoding!LoadIllFormed, Encoding!StandsOn, Encoding!own
  <2>2. CASE Encoding!LoadScalar(i)
    BY <2>2 DEF Encoding!LoadScalar, Encoding!Does, Encoding!StandsOn, Encoding!own
  <2>3. CASE Encoding!LoadFlush(i)
    BY <2>3 DEF Encoding!LoadFlush, Encoding!Does, Encoding!StandsOn, Encoding!Stop,
                Encoding!own
  <2>4. CASE Encoding!LoadEnd(i)
    BY <2>4 DEF Encoding!LoadEnd, Encoding!Stop, Encoding!own
  <2>5. CASE Encoding!NextByte(i)
    BY <2>5 DEF Encoding!NextByte, Encoding!StandsOn, Encoding!own
  <2> QED
    BY <2>1, <2>2, <2>3, <2>4, <2>5 DEF Encoding!Load
<1> QED
  BY <1>1 DEF EType

\* All that each iterator has given is the beginning of what is promised.
EYielding == \A i \in Iterators : EYields(i)

\* Every step of encode_view keeps to what is promised.
LEMMA EYieldingKept ==
  ASSUME EType, EYielding, Encoding!Next \/ (UNCHANGED vars /\ UNCHANGED <<mode, base>>)
  PROVE  EYielding'
<1>1. ASSUME NEW i \in Iterators, Encoding!Load(i) \/ Encoding!NextByte(i)
      PROVE  EYielding'
  <2>1. EYields(i)'
    BY <1>1, ELoadGives, EGivesNext DEF EYielding
  <2>2. ASSUME NEW j \in Iterators, j # i PROVE EYields(j)'
    BY <1>1, <2>2, EMovesOne, EYieldsElsewhere DEF EYielding
  <2> QED
    BY <2>1, <2>2 DEF EYielding
<1>2. ASSUME NEW i \in Iterators, NEW j \in Iterators, Copy(i, j), UNCHANGED mode
      PROVE  EYielding'
  <2>1. \A l \in Iterators : \E f \in Iterators :
          it'[l] = it[f] /\ seen'[l] = seen[f] /\ calls'[l] = calls[f]
    BY <1>2 DEF Copy, EType
  <2>2. ASSUME NEW l \in Iterators PROVE EYields(l)'
    <3>1. PICK f \in Iterators :
            it'[l] = it[f] /\ seen'[l] = seen[f] /\ calls'[l] = calls[f]
      BY <2>1
    <3> QED
      BY <1>2, <3>1, EYieldsElsewhere DEF EYielding
  <2> QED
    BY <2>2 DEF EYielding
<1>3. CASE Encoding!Next
  <2>1. PICK i \in Iterators :
          \/ Encoding!Load(i) \/ Encoding!NextByte(i)
          \/ \E j \in Iterators : Encoding!Copy(i, j) /\ UNCHANGED mode
    BY <1>3 DEF Encoding!Next, Encoding!Begin, Encoding!Goes, Encoding!own
  <2>2. CASE \E j \in Iterators : Encoding!Copy(i, j) /\ UNCHANGED mode
    BY <1>2, <2>2 DEF Encoding!Copy, Copy, Encoding!Unused, Unused, Encoding!Idle, Idle
  <2> QED
    BY <1>1, <2>1, <2>2
<1>4. CASE UNCHANGED vars /\ UNCHANGED <<mode, base>>
  <2>1. UNCHANGED <<it, seen, calls, mode>>
    BY <1>4 DEF vars
  <2>2. ASSUME NEW i \in Iterators PROVE EYields(i)'
    BY <2>1, EYieldsElsewhere DEF EYielding
  <2> QED
    BY <2>2 DEF EYielding
<1> QED
  BY <1>3, <1>4

\* At first there is nothing to give.
LEMMA EYieldingStarts == ASSUME Encoding!Init PROVE EYielding
<1>1. \A i \in Iterators : it[i] = Unused
  BY DEF Encoding!Init, Encoding!NothingYet, Encoding!Unused, Unused
<1> QED
  BY <1>1 DEF EYielding, EYields

\* What iterators have given is the codec's bytes.
LEMMA EElements == ASSUME EType, EYielding PROVE Encoding!ElementsAreTheCodecsBytes
<1>1. SUFFICES
        ASSUME NEW i \in Iterators, it[i] # Unused
        PROVE  \E whole : /\ whole = Flat(calls[i])
                        /\ seen[i] = SubSeq(whole, 1,
                             Len(whole) - IF it[i].done THEN 0
                                        ELSE Len(it[i].buf) - it[i].pos - 1)
  BY DEF Encoding!ElementsAreTheCodecsBytes, Flat, Encoding!Unused, Unused
<1>2. PICK whole : whole = Flat(calls[i])
  OBVIOUS
<1>3. whole \in Seq(Parts)
  BY <1>2, FlatTyped DEF EType
<1>4. PICK x \in EIterators : x = it[i]
  BY <1>1 DEF EType
<1>5. CASE x.done
  <2>1. seen[i] = whole
    BY <1>1, <1>2, <1>4, <1>5 DEF EYielding, EYields
  <2>2. Len(whole) - 0 = Len(whole)
    BY <1>3
  <2>3. seen[i] = SubSeq(whole, 1, Len(whole) - 0)
    BY <1>3, <2>1, <2>2, SubSeqWhole
  <2> QED
    BY <1>2, <1>4, <1>5, <2>3
<1>6. CASE ~x.done
  <2>1. PICK f, r \in Seq(Parts) :
          /\ whole = f \o r
          /\ Len(r) = Len(x.buf)
          /\ seen[i] = SubSeq(f \o r, 1, Len(f) + x.pos + 1)
    BY <1>1, <1>2, <1>4, <1>6 DEF EYielding, EYields, Shows
  <2>2. Len(whole) = Len(f) + Len(r) /\ Len(f) \in Nat /\ Len(r) \in Nat
    BY <2>1, ConcatProperties
  <2>3. Len(whole) - (Len(x.buf) - x.pos - 1) = Len(f) + x.pos + 1
    <3>1. x.pos \in Nat
      BY EFields
    <3> QED
      BY <2>1, <2>2, <3>1, SMTT(30)
  <2>4. seen[i] = SubSeq(whole, 1, Len(whole) - (Len(x.buf) - x.pos - 1))
    BY <2>1, <2>3
  <2> QED
    BY <1>2, <1>4, <1>6, <2>4
<1> QED
  BY <1>5, <1>6

-----------------------------------------------------------------------------
\* The inductive invariant of a program over either view.
Inv ==
  \/ view = "decode_view" /\ DInv
  \/ view = "encode_view" /\ EInv

\* The inductive invariant holds at first, in either view.
LEMMA InvStarts == ASSUME Init PROVE Inv
  BY DInvStarts, EInvStarts DEF Init, Inv

\* A step that changes nothing keeps the invariant of decode_view.
LEMMA DStutterKeepsInv == ASSUME DInv, UNCHANGED vars PROVE DInv'
<1>1. UNCHANGED <<models, it, loading, codec_does, seen, calls>>
  BY DEF vars
<1>2. DType'
  BY <1>1 DEF DInv, DType
<1>3. DTraced'
  <2>1. PICK T : /\ DTrace(T)
                 /\ \A i \in Iterators : it[i] # Unused =>
                      \E k \in 1 .. Len(T) : DStandsAt(i, T, k)
    BY DEF DInv, DTraced
  <2>2. Grows
    BY <1>1 DEF Grows
  <2>3. DTrace(T)'
    BY <1>1, <2>1, <2>2, DStillAgreed DEF DTrace
  <2>4. \A i, k : DStandsAt(i, T, k)' = DStandsAt(i, T, k)
    BY <1>1 DEF DStandsAt, Ready, Opening, Decoding!BomAware
  <2> QED
    BY <1>1, <2>1, <2>3, <2>4 DEF DTraced
<1>4. \A i \in Iterators : DContract(i)'
  BY <1>1 DEF DInv, DContract, Opening, Decoding!BomAware
<1> QED
  BY <1>2, <1>3, <1>4 DEF DInv

\* A step that changes nothing keeps the invariant of encode_view.
LEMMA EStutterKeepsInv == ASSUME EInv, UNCHANGED vars, UNCHANGED <<mode, base>> PROVE EInv'
<1>1. UNCHANGED <<models, it, loading, codec_does, seen, calls>>
  BY DEF vars
<1>2. EType'
  BY <1>1 DEF EInv, EType
<1>3. ETraced'
  <2>1. PICK T : /\ ETrace(T)
                 /\ \A i \in Iterators : it[i] # Unused =>
                      \E k \in 1 .. Len(T) : EIsAt(i, T[k])
    BY DEF EInv, ETraced
  <2>2. Grows
    BY <1>1 DEF Grows
  <2>3. ETrace(T)'
    BY <1>1, <2>1, <2>2, EStillAgreed DEF ETrace
  <2>4. \A i, p : EIsAt(i, p)' = EIsAt(i, p)
    BY <1>1 DEF EIsAt
  <2> QED
    BY <1>1, <2>1, <2>3, <2>4 DEF ETraced
<1>4. \A i \in Iterators : EContract(i)'
  BY <1>1, EContractElsewhere DEF EInv
<1> QED
  BY <1>2, <1>3, <1>4 DEF EInv

\* Every step, in either view, keeps the inductive invariant.
LEMMA InvKept == ASSUME Inv, [Next]_all PROVE Inv'
<1>1. CASE UNCHANGED all
  <2>1. CASE view = "decode_view" /\ DInv
    BY <1>1, <2>1, DStutterKeepsInv DEF all, Inv
  <2>2. CASE view = "encode_view" /\ EInv
    BY <1>1, <2>2, EStutterKeepsInv DEF all, Inv
  <2> QED
    BY <2>1, <2>2 DEF Inv
<1>2. CASE Next
  BY <1>2, DInvKept, EInvKept DEF Next, Inv
<1> QED
  BY <1>1, <1>2

\* In every state of either view, all iterators are on one ordered course and
\* have called the codec as they have to (load() of both views).
THEOREM InvAlways == Spec => []Inv
  BY InvStarts, InvKept, PTL DEF Spec

\* Every variable has the values its declaration in the code allows, and an
\* iterator of encode_view that is not at the end stands on a byte it has
\* written (buf_ and pos_ of encode_view::iterator).
THEOREM TypeCorrect == Spec => []TypeOK
<1>1. Inv => TypeOK
  BY DHolds, EHolds DEF Inv, TypeOK
<1> QED
  BY <1>1, InvAlways, PTL

\* Both views are multi-pass: however increments and copies of any number of
\* iterators are interleaved, they see the same elements (operator++ of both
\* views, which model forward_range).
THEOREM IsMultiPass == Spec => []MultiPass
<1>1. Inv => MultiPass
  BY DMultiPass, EMultiPass DEF Inv
<1> QED
  BY <1>1, InvAlways, PTL

\* Any two iterators at the same element compare equal, and any two at different
\* elements do not if the codec can be compared (operator== of both views).
THEOREM EqualityCorrect == Spec => []EqualIsSameElement
<1>1. Inv => EqualIsSameElement
  BY DEquality, EEquality DEF Inv, EqualIsSameElement
<1> QED
  BY <1>1, InvAlways, PTL

\* Whatever the iterators do, each calls its codec as codec_concepts.hpp says:
\* decode_first at most once and first, each code unit once and in order, and
\* flush last, until nothing is owed (load() of both views).
THEOREM ContractKept == Spec => []CodecContract
<1>1. Inv => CodecContract
  BY DHolds, EHolds DEF Inv, CodecContract
<1> QED
  BY <1>1, InvAlways, PTL

\* The elements each iterator of encode_view has stood on are the bytes of the
\* codec's results, each once and in order, up to the one it stands on; in a
\* report view an error stands for its result (load(), operator++ and operator*
\* of encode_view::iterator).
THEOREM BytesYielded == Spec => []ElementsAreTheCodecsBytes
<1> DEFINE Yielding == view = "encode_view" => EYielding
<1>1. Init => Yielding
  BY EYieldingStarts DEF Init
<1>2. ASSUME Inv, Yielding, [Next]_all PROVE Yielding'
  <2>1. SUFFICES ASSUME view' = "encode_view" PROVE EYielding'
    OBVIOUS
  <2>2. /\ view = "encode_view"
        /\ Encoding!Next \/ (UNCHANGED vars /\ UNCHANGED <<mode, base>>)
    BY <1>2, <2>1 DEF Next, all
  <2>3. EType /\ EYielding
    BY <1>2, <2>2 DEF Inv, EInv
  <2> QED
    BY <2>2, <2>3, EYieldingKept
<1>3. Inv /\ Yielding => ElementsAreTheCodecsBytes
  BY EElements DEF Inv, EInv, ElementsAreTheCodecsBytes
<1> HIDE DEF Yielding
<1> QED
  BY <1>1, <1>2, <1>3, InvAlways, PTL DEF Spec

=============================================================================

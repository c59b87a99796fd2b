-------------------------- MODULE ClientCoreProofs --------------------------
(***************************************************************************)
(* The event stream implements EventLog and loses nothing to a client that *)
(* has joined, whatever the bounds, the connections lost and the restarts; *)
(* the session keeps its tokens, whatever is lost or killed.               *)
(***************************************************************************)
EXTENDS ClientCore, FiniteSetTheorems, SequenceTheorems, TLAPS

---------------------------------------------------------------------------
(* What is chosen of a sequence keeps its order, and nothing is left out.   *)

\* c has the elements of s at the positions I, in their order.
InOrder(c, s, I) ==
    \E pos \in [1..Cardinality(I) -> I] :
        /\ \A n \in 1..Cardinality(I) : c[n] = s[pos[n]]
        /\ \A n, m \in 1..Cardinality(I) : n < m => pos[n] < pos[m]
        /\ \A i \in I : \E n \in 1..Cardinality(I) : pos[n] = i

LEMMA ChosenLemma ==
  ASSUME NEW S, NEW s \in Seq(S), NEW I \in SUBSET DOMAIN s
  PROVE  /\ Cardinality(I) \in Nat
         /\ Chosen(s, I) \in Seq(S) /\ Len(Chosen(s, I)) = Cardinality(I)
         /\ InOrder(Chosen(s, I), s, I)
<1> DEFINE UpTo(i) == {j \in I : j <= i}
           N == Cardinality(I)
           rank == [i \in I |-> Cardinality(UpTo(i))]
           pos == [n \in 1..N |-> CHOOSE i \in I : Cardinality({j \in I : j <= i}) = n]
<1>1. Len(s) \in Nat /\ DOMAIN s = 1..Len(s) /\ I \subseteq Nat
  BY LenProperties
<1>2. IsFiniteSet(I) /\ N \in Nat
  <2>1. IsFiniteSet(1..Len(s))
    BY <1>1, FS_Interval
  <2>2. IsFiniteSet(I)
    BY <1>1, <2>1, FS_Subset
  <2> QED
    BY <2>2, FS_CardinalityType
<1>3. \A i \in I : /\ IsFiniteSet(UpTo(i)) /\ Cardinality(UpTo(i)) \in Nat /\ Cardinality(UpTo(i)) <= N
                   /\ Cardinality(UpTo(i)) # 0
  <2> TAKE i \in I
  <2>1. UpTo(i) \in SUBSET I /\ i \in UpTo(i)
    BY <1>1
  <2>2. IsFiniteSet(UpTo(i)) /\ Cardinality(UpTo(i)) <= N
    BY <1>2, <2>1, FS_Subset
  <2>3. Cardinality(UpTo(i)) \in Nat /\ Cardinality(UpTo(i)) # 0
    BY <2>1, <2>2, FS_CardinalityType, FS_EmptySet
  <2> QED
    BY <2>2, <2>3
<1>4. \A i, k \in I : i < k => Cardinality(UpTo(i)) < Cardinality(UpTo(k))
  <2> SUFFICES ASSUME NEW i \in I, NEW k \in I, i < k
               PROVE  Cardinality(UpTo(i)) < Cardinality(UpTo(k))
    OBVIOUS
  <2>1. UpTo(i) \in SUBSET UpTo(k) /\ k \in UpTo(k) /\ k \notin UpTo(i)
    BY <1>1
  <2>2. Cardinality(UpTo(i)) <= Cardinality(UpTo(k)) /\ Cardinality(UpTo(k)) # Cardinality(UpTo(i))
    BY <1>3, <2>1, FS_Subset
  <2> HIDE DEF UpTo
  <2> QED
    BY <1>3, <2>2
<1>5. rank \in Injection(I, 1..N)
  <2>1. rank \in [I -> 1..N]
    <3> HIDE DEF UpTo
    <3> QED
      BY <1>2, <1>3
  <2>2. ASSUME NEW i \in I, NEW k \in I, rank[i] = rank[k] PROVE i = k
    <3> HIDE DEF UpTo
    <3> QED
      BY <1>1, <1>3, <1>4, <2>2
  <2> QED
    BY <2>1, <2>2 DEF Injection, IsInjective
<1>6. rank \in Surjection(I, 1..N)
  <2>1. IsFiniteSet(1..N) /\ Cardinality(1..N) = N
    BY <1>2, FS_Interval
  <2> QED
    BY <1>5, <2>1, FS_Injection
<1>7. \A n \in 1..N : \E i \in I : Cardinality(UpTo(i)) = n
  BY <1>6 DEF Surjection
<1>8. \A n \in 1..N : pos[n] \in I /\ Cardinality(UpTo(pos[n])) = n
  BY <1>7
<1>9. Chosen(s, I) = [n \in 1..N |-> s[pos[n]]]
  BY DEF Chosen
<1> HIDE DEF UpTo, pos, rank
<1>10. \A n \in 1..N : s[pos[n]] \in S
  BY <1>1, <1>8, ElementOfSeq
<1>11. Chosen(s, I) \in Seq(S) /\ Len(Chosen(s, I)) = N
  BY <1>2, <1>9, <1>10
<1>12. \A n, m \in 1..N : n < m => pos[n] < pos[m]
  <2> SUFFICES ASSUME NEW n \in 1..N, NEW m \in 1..N, n < m PROVE pos[n] < pos[m]
    OBVIOUS
  <2>1. pos[n] \in Nat /\ pos[m] \in Nat
    BY <1>1, <1>8
  <2>2. CASE pos[m] < pos[n]
    BY <1>2, <1>4, <1>8, <2>2
  <2>3. CASE pos[m] = pos[n]
    BY <1>8, <2>3
  <2> QED
    BY <2>1, <2>2, <2>3
<1>13. \A i \in I : \E n \in 1..N : pos[n] = i
  <2> TAKE i \in I
  <2>1. Cardinality(UpTo(i)) \in 1..N
    BY <1>2, <1>3
  <2> DEFINE n == Cardinality(UpTo(i))
  <2>2. pos[n] \in I /\ Cardinality(UpTo(pos[n])) = n
    BY <1>8, <2>1
  <2>3. ~(pos[n] < i) /\ ~(i < pos[n])
    BY <1>2, <1>4, <2>1, <2>2
  <2>4. pos[n] = i
    BY <1>1, <2>2, <2>3
  <2> QED
    BY <2>1, <2>4
<1>14. pos \in [1..N -> I]
  BY <1>8 DEF pos
<1>15. InOrder(Chosen(s, I), s, I)
  BY <1>9, <1>12, <1>13, <1>14 DEF InOrder
<1> QED
  BY <1>2, <1>11, <1>15

---------------------------------------------------------------------------
(* The invariant of the stream. *)

\* The place in log of the last event of the server's earlier numberings.
Base == Len(log) + 1 - nextId

\* The buffer holds the last events of the server as it runs now.
BusInv ==
    /\ nextId <= Len(log) + 1
    /\ Len(buffer) = IF nextId - 1 < BufferSize THEN nextId - 1 ELSE BufferSize
    /\ \A i \in DOMAIN buffer :
          buffer[i] = [id |-> nextId - 1 - Len(buffer) + i, at |-> Len(log) - Len(buffer) + i]

\* Only an open connection carries frames, in the order of their ids.
WireInv ==
    /\ phase # "open" => wire = <<>>
    /\ phase = "open" => lastSentId < nextId
    /\ \A i \in DOMAIN wire :
        /\ wire[i].upTo = Base + wire[i].id
        /\ wire[i].id <= lastSentId
        /\ wire[i].at # 0 => /\ wire[i].at = wire[i].upTo
                             /\ wire[i].id > 0
                             /\ log[wire[i].at] # "other"
        /\ \A j \in DOMAIN wire :
              i < j => /\ wire[i].id <= wire[j].id
                       /\ wire[j].at # 0 => wire[i].id < wire[j].id

\* The resume point is the client's place in log, once it has joined, and the
\* frames on the wire are after it.
CursorInv ==
    /\ joinedAt = NoId => cursor <= Base
    /\ joinedAt # NoId =>
        /\ lastEventId \in Nat /\ lastEventId < nextId /\ cursor = Base + lastEventId
        /\ Base <= joinedAt /\ joinedAt <= cursor
        /\ phase = "open" => lastEventId <= lastSentId
        /\ \A i \in DOMAIN wire : /\ lastEventId <= wire[i].id
                                  /\ wire[i].at # 0 => lastEventId < wire[i].id

\* An open wire carries every recent event of the device after p.
Covered(p) == \A k \in DOMAIN log : k > p /\ Recent(k) => OnTheWire(k)

\* Nothing is missing after a frame of the wire or after the client's place,
\* and everything between the place it joined at and that place was delivered.
CoverInv ==
    /\ phase = "open" =>
        /\ \A k \in DOMAIN log : k > Base + lastSentId => log[k] # "own"
        /\ \A i \in DOMAIN wire : Covered(wire[i].upTo)
        /\ joinedAt # NoId => Covered(cursor)
    /\ joinedAt # NoId =>
          \A k \in DOMAIN log : k > joinedAt /\ k <= cursor /\ Recent(k) => Delivered(k)

StreamInv == TypeOK /\ BusInv /\ WireInv /\ CursorInv /\ CoverInv

---------------------------------------------------------------------------
(* One step of the stream at a time. *)

LEMMA Typed ==
  ASSUME TypeOK, BusInv
  PROVE  /\ Len(log) \in Nat /\ DOMAIN log = 1..Len(log)
         /\ nextId \in Nat /\ nextId > 0 /\ lastSentId \in Nat
         /\ Len(buffer) \in Nat /\ DOMAIN buffer = 1..Len(buffer)
         /\ Len(wire) \in Nat /\ DOMAIN wire = 1..Len(wire)
         /\ \A i \in DOMAIN wire : wire[i].id \in Nat /\ wire[i].at \in Nat /\ wire[i].upTo \in Nat
         /\ cursor \in Nat /\ BufferSize \in Nat /\ BufferSize > 0 /\ NoId \notin Nat
         /\ Base \in Nat
<1>1. \A i \in 1..Len(wire) : wire[i] \in Frame
  BY DEF TypeOK
<1>2. \A f \in Frame : f.id \in Nat /\ f.at \in Nat /\ f.upTo \in Nat
  BY DEF Frame
<1> QED
  BY StreamAssumption, <1>1, <1>2, SMTT(30) DEF TypeOK, BusInv, Base

\* A step that leaves the server and the history alone and at most takes the
\* connection away.
LEMMA QuietStep ==
  ASSUME StreamInv, UNCHANGED <<log, nextId, buffer, lastSentId, lastEventId, history>>,
         \/ phase' = phase /\ wire' = wire
         \/ phase' # "open" /\ wire' = <<>>
  PROVE  BusInv' /\ WireInv' /\ CursorInv' /\ CoverInv'
<1>1. BusInv'
  BY DEF StreamInv, BusInv
<1>2. Base' = Base
  BY DEF Base
<1>3. CASE phase' = phase /\ wire' = wire
  BY <1>1, <1>2, <1>3
     DEF StreamInv, WireInv, CursorInv, CoverInv, Covered, Recent, OnTheWire, Delivered, history
<1>4. CASE phase' # "open" /\ wire' = <<>>
  <2>1. WireInv'
    BY <1>4 DEF WireInv
  <2>2. CursorInv'
    BY <1>2, <1>4 DEF StreamInv, CursorInv, history
  <2>3. CoverInv'
    BY <1>4 DEF StreamInv, CoverInv, Recent, Delivered, history
  <2> QED
    BY <1>1, <2>1, <2>2, <2>3
<1> QED
  BY <1>3, <1>4

LEMMA PublishStep ==
  ASSUME StreamInv, NEW kind \in Kinds, Publish(kind)
  PROVE  TypeOK' /\ BusInv' /\ WireInv' /\ CursorInv' /\ CoverInv'
<1> DEFINE at == Len(log) + 1
           e == [id |-> nextId, at |-> at]
           f == [id |-> nextId, at |-> at, upTo |-> at]
<1> USE DEF StreamInv
<1>1. /\ log' = Append(log, kind) /\ nextId' = nextId + 1 /\ buffer' = Buffered(e)
      /\ UNCHANGED <<granted, beats, client, history, spent>>
  BY DEF Publish
<1>2. \/ /\ phase = "open" /\ Visible(kind) /\ lastSentId' = nextId /\ wire' = Append(wire, f)
      \/ ~(phase = "open" /\ Visible(kind)) /\ lastSentId' = lastSentId /\ wire' = wire
  BY DEF Publish
<1>3. /\ Len(log) \in Nat /\ DOMAIN log = 1..Len(log)
      /\ nextId \in Nat /\ nextId > 0 /\ lastSentId \in Nat
      /\ Len(buffer) \in Nat /\ DOMAIN buffer = 1..Len(buffer)
      /\ Len(wire) \in Nat /\ DOMAIN wire = 1..Len(wire)
      /\ \A i \in DOMAIN wire : wire[i].id \in Nat /\ wire[i].at \in Nat /\ wire[i].upTo \in Nat
      /\ cursor \in Nat /\ BufferSize \in Nat /\ BufferSize > 0 /\ NoId \notin Nat
      /\ Base \in Nat
  BY Typed
<1>4. /\ Len(log') = at /\ DOMAIN log' = 1..at /\ log'[at] = kind
      /\ \A k \in DOMAIN log : log'[k] = log[k]
      /\ log' \in Seq(Kinds)
  BY <1>1, <1>3 DEF TypeOK
<1>5. Base' = Base
  BY <1>1, <1>3, <1>4 DEF Base
<1>6. e \in Stored /\ e.id = nextId /\ e.at = at
  BY <1>3 DEF Stored
<1>7. f \in Frame /\ f.id = nextId /\ f.at = at /\ f.upTo = at
  BY <1>3 DEF Frame
<1>8. /\ buffer' \in Seq(Stored) /\ Len(buffer') \in Nat /\ DOMAIN buffer' = 1..Len(buffer')
      /\ \/ /\ Len(buffer) + 1 > BufferSize /\ Len(buffer') = Len(buffer)
            /\ \A i \in 1..Len(buffer') : i # Len(buffer') => buffer'[i] = buffer[i + 1]
         \/ /\ Len(buffer) + 1 <= BufferSize /\ Len(buffer') = Len(buffer) + 1
            /\ \A i \in 1..Len(buffer') : i # Len(buffer') => buffer'[i] = buffer[i]
      /\ buffer'[Len(buffer')] = e
  <2> DEFINE all == Append(buffer, e)
  <2> HIDE DEF e
  <2>0. Len(buffer) \in Nat /\ buffer \in Seq(Stored) /\ BufferSize \in Nat /\ BufferSize > 0
    BY <1>3 DEF TypeOK
  <2>1. /\ all \in Seq(Stored) /\ Len(all) = Len(buffer) + 1
        /\ \A i \in 1..(Len(buffer) + 1) :
              all[i] = IF i = Len(buffer) + 1 THEN e ELSE buffer[i]
    BY <1>3, <1>6 DEF TypeOK
  <2>2. buffer' = IF Len(all) > BufferSize THEN Tail(all) ELSE all
    BY <1>1 DEF Buffered
  <2> HIDE DEF all
  <2>3. CASE Len(all) > BufferSize
    <3>1. /\ Tail(all) \in Seq(Stored) /\ Len(Tail(all)) = Len(buffer)
          /\ \A i \in 1..Len(buffer) : Tail(all)[i] = all[i + 1]
      BY <1>3, <2>1
    <3>2. buffer' = Tail(all) /\ Len(buffer) + 1 > BufferSize
      BY <2>1, <2>2, <2>3
    <3>3. Len(buffer) > 0 /\ Len(buffer') = Len(buffer)
      BY <1>3, <3>1, <3>2 DEF TypeOK
    <3>4. \A i \in 1..Len(buffer) : i # Len(buffer) => buffer'[i] = buffer[i + 1]
      <4> SUFFICES ASSUME NEW i \in 1..Len(buffer), i # Len(buffer) PROVE buffer'[i] = buffer[i + 1]
        OBVIOUS
      <4>1. buffer'[i] = all[i + 1]
        BY <3>1, <3>2
      <4>2. i + 1 \in 1..(Len(buffer) + 1) /\ i + 1 # Len(buffer) + 1
        BY <2>0
      <4> QED
        BY <2>1, <4>1, <4>2
    <3>5. buffer'[Len(buffer)] = e
      <4>1. Len(buffer) \in 1..Len(buffer) /\ Len(buffer) + 1 \in 1..(Len(buffer) + 1)
        BY <1>3, <3>3
      <4> QED
        BY <2>1, <3>1, <3>2, <4>1
    <3> QED
      <4>1. buffer' \in Seq(Stored) /\ Len(buffer') \in Nat /\ DOMAIN buffer' = 1..Len(buffer')
        BY <2>0, <3>1, <3>2
      <4>2. \A i \in 1..Len(buffer') : i # Len(buffer') => buffer'[i] = buffer[i + 1]
        BY <3>3, <3>4
      <4>3. buffer'[Len(buffer')] = e
        BY <3>3, <3>5
      <4> QED
        BY <3>2, <3>3, <4>1, <4>2, <4>3
  <2>4. CASE ~(Len(all) > BufferSize)
    <3>1. buffer' = all /\ Len(buffer) + 1 <= BufferSize
      BY <1>3, <2>1, <2>2, <2>4
    <3>2. /\ buffer' \in Seq(Stored) /\ Len(buffer') = Len(buffer) + 1
          /\ buffer'[Len(buffer')] = e
      BY <2>0, <2>1, <3>1
    <3>3. \A i \in 1..Len(buffer') : i # Len(buffer') => buffer'[i] = buffer[i]
      BY <2>0, <2>1, <3>1, <3>2
    <3>4. Len(buffer') \in Nat /\ DOMAIN buffer' = 1..Len(buffer')
      BY <2>0, <3>2
    <3> QED
      BY <3>1, <3>2, <3>3, <3>4
  <2> QED
    BY <2>3, <2>4
<1> HIDE DEF e, f
<1>9. BusInv'
  <2>1. nextId' <= Len(log') + 1
    BY <1>1, <1>3, <1>4 DEF BusInv
  <2>2. Len(buffer') = IF nextId' - 1 < BufferSize THEN nextId' - 1 ELSE BufferSize
    <3>1. /\ Len(buffer) = IF nextId - 1 < BufferSize THEN nextId - 1 ELSE BufferSize
          /\ nextId' = nextId + 1 /\ nextId \in Nat /\ nextId > 0
          /\ Len(buffer) \in Nat /\ BufferSize \in Nat
      BY <1>1, <1>3 DEF BusInv
    <3>2. \/ Len(buffer) + 1 > BufferSize /\ Len(buffer') = Len(buffer)
          \/ Len(buffer) + 1 <= BufferSize /\ Len(buffer') = Len(buffer) + 1
      BY <1>8
    <3> QED
      BY <3>1, <3>2
  <2>3. ASSUME NEW i \in 1..Len(buffer')
        PROVE  buffer'[i] = [id |-> nextId' - 1 - Len(buffer') + i,
                             at |-> Len(log') - Len(buffer') + i]
    <3>1. CASE i # Len(buffer') /\ Len(buffer') = Len(buffer) /\ buffer'[i] = buffer[i + 1]
      <4>1. i + 1 \in DOMAIN buffer
        BY <1>3, <2>3, <3>1
      <4>2. buffer[i + 1] = [id |-> nextId - 1 - Len(buffer) + (i + 1),
                             at |-> Len(log) - Len(buffer) + (i + 1)]
        BY <4>1 DEF BusInv
      <4>3. /\ nextId - 1 - Len(buffer) + (i + 1) = nextId' - 1 - Len(buffer') + i
            /\ Len(log) - Len(buffer) + (i + 1) = Len(log') - Len(buffer') + i
        <5>1. Len(buffer) \in Nat /\ Len(log) \in Nat /\ nextId \in Nat
          BY <1>3
        <5>2. nextId' = nextId + 1 /\ Len(log') = Len(log) + 1 /\ Len(buffer') = Len(buffer)
          BY <1>1, <1>4, <3>1
        <5> QED
          BY <5>1, <5>2
      <4> QED
        BY <3>1, <4>2, <4>3
    <3>2. CASE i # Len(buffer') /\ Len(buffer') = Len(buffer) + 1 /\ buffer'[i] = buffer[i]
      <4>1. i \in DOMAIN buffer
        BY <1>3, <2>3, <3>2
      <4>2. buffer[i] = [id |-> nextId - 1 - Len(buffer) + i, at |-> Len(log) - Len(buffer) + i]
        BY <4>1 DEF BusInv
      <4>3. /\ nextId - 1 - Len(buffer) + i = nextId' - 1 - Len(buffer') + i
            /\ Len(log) - Len(buffer) + i = Len(log') - Len(buffer') + i
        BY <1>1, <1>3, <1>4, <3>2
      <4> QED
        BY <3>2, <4>2, <4>3
    <3>3. CASE i = Len(buffer')
      <4>1. buffer'[i] = e
        BY <1>8, <3>3
      <4>2. nextId = nextId' - 1 - Len(buffer') + i /\ at = Len(log') - Len(buffer') + i
        BY <1>1, <1>3, <1>4, <3>3
      <4> QED
        BY <4>1, <4>2 DEF e
    <3> QED
      BY <1>8, <2>3, <3>1, <3>2, <3>3
  <2> QED
    BY <1>8, <2>1, <2>2, <2>3 DEF BusInv
<1>10. wire' \in Seq(Frame)
  <2>1. wire \in Seq(Frame)
    BY DEF TypeOK
  <2> QED
    BY <1>2, <1>7, <2>1
<1>11. TypeOK'
  <2>1. Len(buffer') <= BufferSize /\ nextId' \in Nat \ {0} /\ lastSentId' \in Nat
    BY <1>1, <1>2, <1>3, <1>8, <1>9 DEF BusInv
  <2> QED
    BY <1>1, <1>4, <1>8, <1>10, <2>1 DEF TypeOK, client, history
<1>12. phase' = phase /\ lastEventId' = lastEventId /\ cursor' = cursor /\ joinedAt' = joinedAt /\ got' = got
  BY <1>1 DEF client, history
<1>13. Base + nextId = at
  BY <1>3 DEF Base
<1>14. ASSUME NEW i \in DOMAIN wire, wire[i].at # 0 PROVE wire[i].at \in DOMAIN log
  <2>1. phase = "open"
    <3> SUFFICES ASSUME phase # "open" PROVE FALSE
      OBVIOUS
    <3>1. wire = <<>>
      BY DEF WireInv
    <3>2. wire \in Seq(Frame) /\ Len(wire) = 0
      BY <3>1, EmptySeq
    <3>3. DOMAIN wire = 1..Len(wire)
      BY <3>2, LenProperties
    <3>4. 1..0 = {}
      OBVIOUS
    <3> QED
      BY <3>2, <3>3, <3>4
  <2>2. lastSentId < nextId /\ wire[i].id <= lastSentId
    BY <2>1 DEF WireInv
  <2>3. wire[i].id > 0 /\ wire[i].at = Base + wire[i].id
    BY <1>14 DEF WireInv
  <2>4. wire[i].id \in Nat /\ lastSentId \in Nat
    <3>1. wire \in Seq(Frame) /\ lastSentId \in Nat
      BY DEF TypeOK
    <3>2. wire[i] \in Frame
      BY <3>1
    <3> QED
      BY <3>1, <3>2 DEF Frame
  <2>5. /\ Len(log) \in Nat /\ nextId \in Nat /\ nextId <= Len(log) + 1
        /\ DOMAIN log = 1..Len(log)
    BY <1>3 DEF BusInv
  <2>6. wire[i].at = Len(log) + 1 - nextId + wire[i].id
    BY <2>3 DEF Base
  <2> HIDE DEF Base
  <2> QED
    BY <2>2, <2>3, <2>4, <2>5, <2>6
<1>15. CASE phase = "open" /\ Visible(kind) /\ lastSentId' = nextId /\ wire' = Append(wire, f)
  <2>1. /\ Len(wire') = Len(wire) + 1 /\ DOMAIN wire' = 1..(Len(wire) + 1)
        /\ \A i \in DOMAIN wire : wire'[i] = wire[i]
        /\ wire'[Len(wire) + 1] = f
    BY <1>3, <1>7, <1>15 DEF TypeOK
  <2>2. WireInv'
    <3>1. \A i \in DOMAIN wire : wire[i].id <= lastSentId /\ lastSentId < nextId
      BY <1>15 DEF WireInv
    <3>2. ASSUME NEW i \in DOMAIN wire'
          PROVE  /\ wire'[i].upTo = Base' + wire'[i].id
                 /\ wire'[i].id <= lastSentId'
                 /\ wire'[i].at # 0 => /\ wire'[i].at = wire'[i].upTo
                                       /\ wire'[i].id > 0
                                       /\ log'[wire'[i].at] # "other"
      <4>1. CASE i \in DOMAIN wire
        BY <1>3, <1>4, <1>5, <1>14, <1>15, <2>1, <3>1, <4>1 DEF WireInv
      <4>2. CASE i = Len(wire) + 1
        BY <1>3, <1>4, <1>5, <1>7, <1>13, <1>15, <2>1, <4>2, SMTT(30) DEF Visible
      <4> QED
        BY <1>3, <2>1, <4>1, <4>2
    <3>3. ASSUME NEW i \in DOMAIN wire', NEW j \in DOMAIN wire', i < j
          PROVE  /\ wire'[i].id <= wire'[j].id
                 /\ wire'[j].at # 0 => wire'[i].id < wire'[j].id
      <4>1. i \in DOMAIN wire
        BY <1>3, <2>1, <3>3
      <4>2. CASE j \in DOMAIN wire
        BY <2>1, <3>3, <4>1, <4>2 DEF WireInv
      <4>3. CASE j = Len(wire) + 1
        BY <1>3, <1>7, <2>1, <3>1, <4>1, <4>3
      <4> QED
        BY <1>3, <2>1, <4>2, <4>3
    <3>4. phase' = "open" /\ lastSentId' < nextId'
      BY <1>1, <1>3, <1>12, <1>15
    <3> QED
      BY <3>2, <3>3, <3>4 DEF WireInv
  <2>3. CursorInv'
    <3>1. ASSUME joinedAt # NoId, NEW i \in DOMAIN wire'
          PROVE  /\ lastEventId <= wire'[i].id
                 /\ wire'[i].at # 0 => lastEventId < wire'[i].id
      BY <1>3, <1>7, <2>1, <3>1 DEF CursorInv
    <3>2. joinedAt # NoId => lastEventId < nextId' /\ lastEventId <= lastSentId'
      BY <1>1, <1>3, <1>15 DEF CursorInv
    <3> QED
      BY <1>5, <1>12, <3>1, <3>2 DEF CursorInv
  <2>4. ASSUME NEW k \in DOMAIN log', Recent(k)'
        PROVE  \/ k = at /\ OnTheWire(k)'
               \/ k \in DOMAIN log /\ Recent(k) /\ (OnTheWire(k) => OnTheWire(k)')
    <3>1. CASE k = at
      BY <1>3, <1>7, <2>1, <3>1 DEF OnTheWire
    <3>2. CASE k \in DOMAIN log
      <4>1. Recent(k)
        BY <1>3, <1>4, <2>4, <3>2 DEF Recent
      <4>2. OnTheWire(k) => OnTheWire(k)'
        BY <1>3, <2>1 DEF OnTheWire
      <4> QED
        BY <3>2, <4>1, <4>2
    <3> QED
      BY <1>3, <1>4, <3>1, <3>2
  <2>5. \A p \in Nat : Covered(p) \/ p = at =>
           \A k \in DOMAIN log' : k > p /\ Recent(k)' => OnTheWire(k)'
    <3> SUFFICES ASSUME NEW p \in Nat, Covered(p) \/ p = at,
                        NEW k \in DOMAIN log', k > p, Recent(k)'
                 PROVE  OnTheWire(k)'
      OBVIOUS
    <3> QED
      BY <1>3, <1>4, <2>4 DEF Covered
  <2>6. CoverInv'
    <3>1. \A k \in DOMAIN log' : k > Base' + lastSentId' => log'[k] # "own"
      BY <1>3, <1>4, <1>5, <1>13, <1>15
    <3>2. (\A i \in DOMAIN wire : Covered(wire[i].upTo))'
      <4> SUFFICES ASSUME NEW i \in DOMAIN wire', NEW k \in DOMAIN log', k > wire'[i].upTo, Recent(k)'
                   PROVE  OnTheWire(k)'
        BY DEF Covered
      <4>1. wire'[i].upTo \in Nat /\ (Covered(wire'[i].upTo) \/ wire'[i].upTo = at)
        BY <1>3, <1>7, <1>15, <2>1 DEF CoverInv
      <4> QED
        BY <2>5, <4>1
    <3>3. (joinedAt # NoId => Covered(cursor))'
      <4> SUFFICES ASSUME joinedAt # NoId, NEW k \in DOMAIN log', k > cursor, Recent(k)'
                   PROVE  OnTheWire(k)'
        BY <1>12 DEF Covered
      <4> QED
        BY <1>3, <1>15, <2>5 DEF CoverInv
    <3>4. ASSUME joinedAt # NoId, NEW k \in DOMAIN log', k > joinedAt, k <= cursor, Recent(k)'
          PROVE  Delivered(k)'
      <4>1. k \in DOMAIN log
        BY <1>3, <1>4, <3>4 DEF CursorInv, Base
      <4>2. Recent(k)
        BY <1>3, <1>4, <3>4, <4>1 DEF Recent
      <4> QED
        BY <1>12, <3>4, <4>1, <4>2 DEF CoverInv, Delivered
    <3> QED
      BY <1>12, <3>1, <3>2, <3>3, <3>4 DEF CoverInv
  <2> QED
    BY <1>9, <1>11, <2>2, <2>3, <2>6
<1>16. CASE ~(phase = "open" /\ Visible(kind)) /\ lastSentId' = lastSentId /\ wire' = wire
  <2>1. WireInv'
    BY <1>1, <1>3, <1>4, <1>5, <1>12, <1>14, <1>16 DEF WireInv
  <2>2. CursorInv'
    BY <1>1, <1>3, <1>5, <1>12, <1>16 DEF CursorInv
  <2>3. ASSUME NEW k \in DOMAIN log', Recent(k)', phase = "open" PROVE k \in DOMAIN log /\ Recent(k)
    <3>1. k # at
      BY <1>4, <1>16, <2>3 DEF Recent, Visible
    <3> QED
      BY <1>3, <1>4, <2>3, <3>1 DEF Recent
  <2>5. CoverInv'
    <3>1. phase = "open" => \A k \in DOMAIN log' : k > Base' + lastSentId' => log'[k] # "own"
      BY <1>3, <1>4, <1>5, <1>16 DEF CoverInv, Visible
    <3>2. phase = "open" => (\A i \in DOMAIN wire : Covered(wire[i].upTo))'
      <4> SUFFICES ASSUME phase = "open", NEW i \in DOMAIN wire,
                          NEW k \in DOMAIN log', k > wire[i].upTo, Recent(k)'
                   PROVE  OnTheWire(k)'
        BY <1>16 DEF Covered
      <4>1. k \in DOMAIN log /\ Recent(k)
        BY <2>3
      <4> QED
        BY <1>16, <4>1 DEF CoverInv, Covered, OnTheWire
    <3>3. phase = "open" => (joinedAt # NoId => Covered(cursor))'
      <4> SUFFICES ASSUME phase = "open", joinedAt # NoId,
                          NEW k \in DOMAIN log', k > cursor, Recent(k)'
                   PROVE  OnTheWire(k)'
        BY <1>12 DEF Covered
      <4>1. k \in DOMAIN log /\ Recent(k)
        BY <2>3
      <4> QED
        BY <1>16, <4>1 DEF CoverInv, Covered, OnTheWire
    <3>4. ASSUME joinedAt # NoId, NEW k \in DOMAIN log', k > joinedAt, k <= cursor, Recent(k)'
          PROVE  Delivered(k)'
      <4>1. k \in DOMAIN log
        BY <1>3, <1>4, <3>4 DEF CursorInv, Base
      <4>2. Recent(k)
        BY <1>3, <1>4, <3>4, <4>1 DEF Recent
      <4> QED
        BY <1>12, <3>4, <4>1, <4>2 DEF CoverInv, Delivered
    <3> QED
      BY <1>12, <3>1, <3>2, <3>3, <3>4 DEF CoverInv
  <2> QED
    BY <1>9, <1>11, <2>1, <2>2, <2>5
<1> QED
  BY <1>2, <1>15, <1>16

LEMMA HeartbeatStep ==
  ASSUME StreamInv, Heartbeat
  PROVE  TypeOK' /\ BusInv' /\ WireInv' /\ CursorInv' /\ CoverInv'
<1> DEFINE f == [id |-> lastSentId, at |-> 0, upTo |-> PlaceOf(lastSentId)]
<1> USE DEF StreamInv
<1>1. /\ phase = "open" /\ beats < MaxBeats /\ beats' = beats + 1 /\ wire' = Append(wire, f)
      /\ UNCHANGED <<server, lastSentId, client, history, spent>>
  BY DEF Heartbeat
<1>2. /\ Len(log) \in Nat /\ DOMAIN log = 1..Len(log) /\ nextId \in Nat /\ lastSentId \in Nat
      /\ Len(wire) \in Nat /\ DOMAIN wire = 1..Len(wire)
      /\ \A i \in DOMAIN wire : wire[i].id \in Nat /\ wire[i].at \in Nat /\ wire[i].upTo \in Nat
      /\ Base \in Nat
  BY Typed
<1>3. /\ log' = log /\ nextId' = nextId /\ buffer' = buffer /\ lastSentId' = lastSentId
      /\ phase' = phase /\ lastEventId' = lastEventId /\ cursor' = cursor
      /\ joinedAt' = joinedAt /\ got' = got /\ Base' = Base
  BY <1>1 DEF server, client, history, Base
<1>4. f \in Frame /\ f.id = lastSentId /\ f.at = 0 /\ f.upTo = Base + lastSentId
  <2>1. PlaceOf(lastSentId) = Base + lastSentId
    BY <1>2 DEF PlaceOf, Base
  <2> QED
    BY <1>2, <2>1 DEF Frame
<1> HIDE DEF f
<1>5. /\ wire' \in Seq(Frame) /\ DOMAIN wire' = 1..(Len(wire) + 1)
      /\ \A i \in DOMAIN wire : wire'[i] = wire[i]
      /\ wire'[Len(wire) + 1] = f
  <2>1. wire \in Seq(Frame)
    BY DEF TypeOK
  <2> QED
    BY <1>1, <1>2, <1>4, <2>1
<1>6. TypeOK'
  <2>1. beats' \in 0..MaxBeats
    BY StreamAssumption, <1>1 DEF TypeOK
  <2> QED
    BY <1>1, <1>5, <2>1 DEF TypeOK, server, client, history
<1>7. BusInv'
  BY <1>3 DEF BusInv
<1>8. WireInv'
  <2>1. ASSUME NEW i \in DOMAIN wire'
        PROVE  /\ wire'[i].upTo = Base' + wire'[i].id
               /\ wire'[i].id <= lastSentId'
               /\ wire'[i].at # 0 => /\ wire'[i].at = wire'[i].upTo
                                     /\ wire'[i].id > 0
                                     /\ log'[wire'[i].at] # "other"
    <3>1. CASE i \in DOMAIN wire
      BY <1>3, <1>5, <3>1 DEF WireInv
    <3>2. CASE i = Len(wire) + 1
      BY <1>2, <1>3, <1>4, <1>5, <3>2
    <3> QED
      BY <1>2, <1>5, <3>1, <3>2
  <2>2. ASSUME NEW i \in DOMAIN wire', NEW j \in DOMAIN wire', i < j
        PROVE  /\ wire'[i].id <= wire'[j].id
               /\ wire'[j].at # 0 => wire'[i].id < wire'[j].id
    <3>1. i \in DOMAIN wire
      BY <1>2, <1>5, <2>2
    <3>2. CASE j \in DOMAIN wire
      BY <1>5, <2>2, <3>1, <3>2 DEF WireInv
    <3>3. CASE j = Len(wire) + 1
      BY <1>2, <1>4, <1>5, <3>1, <3>3 DEF WireInv
    <3> QED
      BY <1>2, <1>5, <3>2, <3>3
  <2>3. phase' = "open" /\ lastSentId' < nextId'
    BY <1>1, <1>3 DEF WireInv
  <2> QED
    BY <2>1, <2>2, <2>3 DEF WireInv
<1>9. CursorInv'
  <2>1. ASSUME joinedAt # NoId, NEW i \in DOMAIN wire'
        PROVE  /\ lastEventId <= wire'[i].id
               /\ wire'[i].at # 0 => lastEventId < wire'[i].id
    <3>1. CASE i \in DOMAIN wire
      BY <1>5, <2>1, <3>1 DEF CursorInv
    <3>2. CASE i = Len(wire) + 1
      BY <1>1, <1>4, <1>5, <2>1, <3>2 DEF CursorInv
    <3> QED
      BY <1>2, <1>5, <3>1, <3>2
  <2> QED
    BY <1>3, <2>1 DEF CursorInv
<1>10. \A k : OnTheWire(k) => OnTheWire(k)'
  BY <1>2, <1>5 DEF OnTheWire
<1>11. \A k : Recent(k)' <=> Recent(k)
  BY <1>3 DEF Recent
<1>12. CoverInv'
  <2>1. \A k \in DOMAIN log' : k > Base' + lastSentId' => log'[k] # "own"
    BY <1>1, <1>3 DEF CoverInv
  <2>2. (\A i \in DOMAIN wire : Covered(wire[i].upTo))'
    <3> SUFFICES ASSUME NEW i \in DOMAIN wire', NEW k \in DOMAIN log', k > wire'[i].upTo, Recent(k)'
                 PROVE  OnTheWire(k)'
      BY DEF Covered
    <3>1. CASE i \in DOMAIN wire
      BY <1>1, <1>3, <1>5, <1>10, <1>11, <3>1 DEF CoverInv, Covered
    <3>2. CASE i = Len(wire) + 1
      <4>1. k > Base + lastSentId /\ k \in DOMAIN log
        BY <1>3, <1>4, <1>5, <3>2
      <4>2. log[k] = "own"
        BY <1>11 DEF Recent
      <4> QED
        BY <1>1, <4>1, <4>2 DEF CoverInv
    <3> QED
      BY <1>2, <1>5, <3>1, <3>2
  <2>3. (joinedAt # NoId => Covered(cursor))'
    BY <1>1, <1>3, <1>10, <1>11 DEF CoverInv, Covered
  <2>4. (joinedAt # NoId =>
            \A k \in DOMAIN log : k > joinedAt /\ k <= cursor /\ Recent(k) => Delivered(k))'
    BY <1>3, <1>11 DEF CoverInv, Delivered
  <2> QED
    BY <2>1, <2>2, <2>3, <2>4 DEF CoverInv
<1> QED
  BY <1>6, <1>7, <1>8, <1>9, <1>12

LEMMA RestartStep ==
  ASSUME StreamInv, Restart
  PROVE  TypeOK' /\ BusInv' /\ WireInv' /\ CursorInv' /\ CoverInv'
<1> USE DEF StreamInv
<1>1. /\ spent.restarts < MaxRestarts /\ spent' = [spent EXCEPT !.restarts = @ + 1]
      /\ nextId' = 1 /\ buffer' = <<>> /\ wire' = <<>> /\ joinedAt' = NoId
      /\ phase' = IF phase \in {"asking", "open"} THEN "waiting" ELSE phase
      /\ UNCHANGED <<log, granted, lastSentId, beats, stopping, signedIn, lastEventId,
                     got, cursor, openedAt>>
  BY DEF Restart
<1>2. /\ Len(log) \in Nat /\ nextId \in Nat /\ nextId > 0 /\ cursor \in Nat
      /\ BufferSize \in Nat /\ BufferSize > 0 /\ NoId \notin Nat /\ Base \in Nat
  BY Typed
<1>3. phase' # "open"
  BY <1>1
<1>4. Len(buffer') = 0 /\ DOMAIN buffer' = {} /\ DOMAIN wire' = {}
  <2>1. buffer' \in Seq(Stored) /\ Len(buffer') = 0 /\ wire' \in Seq(Frame) /\ Len(wire') = 0
    BY <1>1, EmptySeq
  <2>2. DOMAIN buffer' = 1..Len(buffer') /\ DOMAIN wire' = 1..Len(wire')
    BY <2>1, LenProperties
  <2>3. 1..0 = {}
    OBVIOUS
  <2> QED
    BY <2>1, <2>2, <2>3
<1>5. TypeOK'
  <2>1. spent' \in [losses: 0..MaxLosses, restarts: 0..MaxRestarts,
                    grants: 0..MaxGrants, changes: 0..MaxChanges]
    <3>1. spent \in [losses: 0..MaxLosses, restarts: 0..MaxRestarts,
                     grants: 0..MaxGrants, changes: 0..MaxChanges]
      BY DEF TypeOK
    <3>2. spent.restarts + 1 \in 0..MaxRestarts
      BY StreamAssumption, <1>1, <3>1
    <3> QED
      BY <1>1, <3>1, <3>2
  <2>2. phase' \in {"off", "ready", "asking", "open", "waiting"}
    BY <1>1 DEF TypeOK
  <2>3. buffer' \in Seq(Stored) /\ Len(buffer') <= BufferSize /\ wire' \in Seq(Frame)
    BY <1>1, <1>2
  <2> QED
    BY <1>1, <2>1, <2>2, <2>3 DEF TypeOK
<1>6. BusInv'
  BY <1>1, <1>2, <1>4 DEF BusInv
<1>7. WireInv'
  BY <1>1, <1>3, <1>4 DEF WireInv
<1>8. Base' = Len(log)
  BY <1>1, <1>2 DEF Base
<1>9. cursor <= Len(log)
  BY <1>2 DEF CursorInv, Base
<1>10. CursorInv'
  BY <1>1, <1>8, <1>9 DEF CursorInv
<1>11. CoverInv'
  BY <1>1, <1>3 DEF CoverInv
<1> QED
  BY <1>5, <1>6, <1>7, <1>10, <1>11

LEMMA OpensStep ==
  ASSUME StreamInv, Opens
  PROVE  TypeOK' /\ BusInv' /\ WireInv' /\ CursorInv' /\ CoverInv'
<1> USE DEF StreamInv
<1>1. /\ phase' = "open" /\ beats' = 0 /\ lastSentId' = CurrentId
      /\ wire' = IF lastEventId = NoId THEN <<>> ELSE Frames(Replay(lastEventId))
      /\ openedAt' = IF openedAt = NoId THEN Len(log) ELSE openedAt
      /\ UNCHANGED <<server, stopping, signedIn, lastEventId, got, cursor, joinedAt, spent>>
  BY DEF Opens, Serve
<1>2. /\ Len(log) \in Nat /\ DOMAIN log = 1..Len(log) /\ nextId \in Nat /\ nextId > 0
      /\ Len(buffer) \in Nat /\ DOMAIN buffer = 1..Len(buffer)
      /\ cursor \in Nat /\ BufferSize \in Nat /\ BufferSize > 0 /\ NoId \notin Nat
      /\ Base \in Nat
  BY Typed
<1>3. /\ log' = log /\ nextId' = nextId /\ buffer' = buffer /\ granted' = granted
      /\ lastEventId' = lastEventId /\ cursor' = cursor
      /\ joinedAt' = joinedAt /\ got' = got /\ Base' = Base
  BY <1>1 DEF server, Base
<1>4. lastSentId' = nextId - 1 /\ lastSentId' \in Nat /\ Base + lastSentId' = Len(log)
  BY <1>1, <1>2 DEF CurrentId, Base
\* What the connection starts with.
<1>5. ASSUME lastEventId # NoId
      PROVE  /\ wire' \in Seq(Frame) /\ Len(wire') \in Nat /\ DOMAIN wire' = 1..Len(wire')
             /\ \A n \in DOMAIN wire' :
                   /\ wire'[n].id \in Nat /\ wire'[n].at \in Nat
                   /\ wire'[n].id > lastEventId /\ wire'[n].id > 0
                   /\ wire'[n].id <= nextId - 1
                   /\ wire'[n].at = Base + wire'[n].id /\ wire'[n].upTo = wire'[n].at
                   /\ Visible(log[wire'[n].at])
             /\ \A n, m \in DOMAIN wire' : n < m => wire'[n].id < wire'[m].id
             /\ \A k \in DOMAIN log :
                   k > Base + lastEventId /\ k > Base /\ Recent(k) =>
                        \E n \in DOMAIN wire' : wire'[n].at = k
  <2> DEFINE I == {i \in DOMAIN buffer : buffer[i].id > lastEventId /\ Visible(log[buffer[i].at])}
             N == Cardinality(I)
             R == Chosen(buffer, I)
  <2>1. wire' = Frames(R) /\ lastEventId \in Nat
    BY <1>1, <1>5 DEF Replay, TypeOK
  <2>2. I \in SUBSET DOMAIN buffer /\ buffer \in Seq(Stored)
    BY DEF TypeOK
  <2>3. /\ N \in Nat /\ R \in Seq(Stored) /\ Len(R) = N
        /\ \E pos \in [1..N -> I] :
               /\ \A n \in 1..N : R[n] = buffer[pos[n]]
               /\ \A n, m \in 1..N : n < m => pos[n] < pos[m]
               /\ \A i \in I : \E n \in 1..N : pos[n] = i
    <3> HIDE DEF I
    <3>1. InOrder(R, buffer, I) /\ N \in Nat /\ R \in Seq(Stored) /\ Len(R) = N
      BY <2>2, ChosenLemma
    <3> QED
      BY <3>1 DEF InOrder
  <2> PICK pos \in [1..N -> I] :
               /\ \A n \in 1..N : R[n] = buffer[pos[n]]
               /\ \A n, m \in 1..N : n < m => pos[n] < pos[m]
               /\ \A i \in I : \E n \in 1..N : pos[n] = i
    BY <2>3
  <2>4. \A i \in I : i \in DOMAIN buffer /\ buffer[i].id > lastEventId /\ Visible(log[buffer[i].at])
    OBVIOUS
  <2>5. \A i \in DOMAIN buffer : /\ buffer[i].id = nextId - 1 - Len(buffer) + i
                                 /\ buffer[i].at = Len(log) - Len(buffer) + i
    BY DEF BusInv
  <2>6. \A k \in DOMAIN log :
            k > Base + lastEventId /\ k > Base /\ Recent(k) =>
                \E i \in I : buffer[i].at = k
    <3> SUFFICES ASSUME NEW k \in DOMAIN log, k > Base + lastEventId, k > Base, Recent(k)
                 PROVE  \E i \in I : buffer[i].at = k
      OBVIOUS
    <3> DEFINE i == k - Len(log) + Len(buffer)
    <3>1. k \in Nat /\ k <= Len(log) /\ k + BufferSize > Len(log) /\ log[k] = "own"
      BY <1>2 DEF Recent
    <3>2. Len(buffer) = IF nextId - 1 < BufferSize THEN nextId - 1 ELSE BufferSize
      BY DEF BusInv
    <3>3. Base = Len(log) + 1 - nextId
      BY DEF Base
    <3>4. i \in 1..Len(buffer)
      BY <1>2, <3>1, <3>2, <3>3, SMTT(30)
    <3>5. Len(log) - Len(buffer) + i = k /\ nextId - 1 - Len(buffer) + i > lastEventId
      BY <1>2, <2>1, <3>1, <3>3
    <3> HIDE DEF i
    <3>6. buffer[i].at = k /\ buffer[i].id > lastEventId
      BY <1>2, <2>5, <3>4, <3>5
    <3>7. i \in I
      BY <1>2, <3>1, <3>4, <3>6 DEF Visible
    <3> QED
      BY <3>6, <3>7
  <2> HIDE DEF I, N, R
  <2>7. /\ Len(wire') = N /\ DOMAIN wire' = 1..N /\ DOMAIN R = 1..N
        /\ wire' = [n \in 1..N |-> [id |-> R[n].id, at |-> R[n].at, upTo |-> R[n].at]]
    BY <2>1, <2>3 DEF Frames
  <2>8. ASSUME NEW n \in 1..N
        PROVE  /\ wire'[n].id = nextId - 1 - Len(buffer) + pos[n]
               /\ wire'[n].at = Len(log) - Len(buffer) + pos[n]
               /\ wire'[n].upTo = wire'[n].at
               /\ wire'[n] \in Frame
               /\ pos[n] \in I /\ pos[n] \in 1..Len(buffer)
               /\ wire'[n].id > lastEventId /\ Visible(log[wire'[n].at])
    <3>1. pos[n] \in I /\ pos[n] \in 1..Len(buffer)
      BY <1>2, <2>4
    <3>2. R[n] = buffer[pos[n]] /\ R[n] \in Stored
      BY <2>3, <2>7
    <3>3. wire'[n] = [id |-> R[n].id, at |-> R[n].at, upTo |-> R[n].at]
      BY <2>7
    <3>4. R[n].id \in Nat /\ R[n].at \in Nat
      BY <3>2 DEF Stored
    <3>5. wire'[n].id = R[n].id /\ wire'[n].at = R[n].at /\ wire'[n].upTo = R[n].at
      BY <3>3
    <3>6. wire'[n] \in Frame
      BY <3>3, <3>4 DEF Frame
    <3> QED
      BY <1>2, <2>4, <2>5, <3>1, <3>2, <3>5, <3>6
  <2>9. wire' \in Seq(Frame)
    <3>1. wire' \in [1..N -> Frame]
      BY <2>7, <2>8
    <3> QED
      BY <2>3, <3>1, SeqDef
  <2>10. Len(buffer) <= nextId - 1
    BY <1>2 DEF BusInv
  <2>11. \A n \in 1..N : /\ wire'[n].id \in Nat /\ wire'[n].at \in Nat
                         /\ wire'[n].id > 0 /\ wire'[n].id <= nextId - 1
                         /\ wire'[n].at = Base + wire'[n].id
    BY <1>2, <2>8, <2>10, SMTT(30) DEF Base
  <2>12. \A n, m \in 1..N : n < m => wire'[n].id < wire'[m].id
    BY <1>2, <2>8
  <2>13. ASSUME NEW k \in DOMAIN log, k > Base + lastEventId, k > Base, Recent(k)
         PROVE  \E n \in 1..N : wire'[n].at = k
    <3>1. PICK i \in I : buffer[i].at = k
      BY <2>6, <2>13
    <3>2. PICK n \in 1..N : pos[n] = i
      OBVIOUS
    <3>3. wire'[n].at = k
      BY <2>4, <2>5, <2>8, <3>1, <3>2
    <3> QED
      BY <3>3
  <2> QED
    BY <2>3, <2>7, <2>8, <2>9, <2>11, <2>12, <2>13
<1>6. /\ wire' \in Seq(Frame)
      /\ \A n \in DOMAIN wire' :
            /\ wire'[n].id \in Nat /\ wire'[n].at \in Nat /\ wire'[n].id > 0
            /\ wire'[n].id <= nextId - 1
            /\ wire'[n].at = Base + wire'[n].id /\ wire'[n].upTo = wire'[n].at
            /\ Visible(log[wire'[n].at])
      /\ \A n, m \in DOMAIN wire' : n < m => wire'[n].id < wire'[m].id
  <2>1. CASE lastEventId # NoId
    BY <1>5, <2>1
  <2>2. CASE lastEventId = NoId
    BY <1>1, <2>2
  <2> QED
    BY <2>1, <2>2
<1>7. TypeOK'
  <2>1. beats' \in 0..MaxBeats
    BY StreamAssumption, <1>1
  <2>2. openedAt' \in Nat \cup {NoId}
    BY <1>1, <1>2 DEF TypeOK
  <2> QED
    BY <1>1, <1>4, <1>6, <2>1, <2>2 DEF TypeOK, server
<1>8. BusInv'
  BY <1>3 DEF BusInv
<1>9. WireInv'
  <2>1. \A i \in DOMAIN wire' :
            /\ wire'[i].upTo = Base' + wire'[i].id
            /\ wire'[i].id <= lastSentId'
            /\ wire'[i].at # 0 => /\ wire'[i].at = wire'[i].upTo
                                  /\ wire'[i].id > 0
                                  /\ log'[wire'[i].at] # "other"
    BY <1>2, <1>3, <1>4, <1>6 DEF Visible
  <2>2. \A i, j \in DOMAIN wire' : i < j => /\ wire'[i].id <= wire'[j].id
                                            /\ wire'[j].at # 0 => wire'[i].id < wire'[j].id
    BY <1>6
  <2>3. phase' = "open" /\ lastSentId' < nextId'
    BY <1>1, <1>2, <1>3, <1>4
  <2> QED
    BY <2>1, <2>2, <2>3 DEF WireInv
<1>10. CursorInv'
  <2>1. ASSUME joinedAt # NoId
        PROVE  /\ lastEventId <= lastSentId'
               /\ \A i \in DOMAIN wire' : lastEventId < wire'[i].id /\ lastEventId <= wire'[i].id
    <3>1. lastEventId \in Nat /\ lastEventId < nextId
      BY <2>1 DEF CursorInv
    <3>2. \A i \in DOMAIN wire' : lastEventId < wire'[i].id
      BY <1>2, <1>5, <3>1
    <3> QED
      BY <1>2, <1>4, <1>6, <3>1, <3>2
  <2> QED
    BY <1>3, <2>1 DEF CursorInv
<1>11. CoverInv'
  <2>1. \A k \in DOMAIN log' : k > Base' + lastSentId' => log'[k] # "own"
    BY <1>2, <1>3, <1>4
  <2>2. (\A i \in DOMAIN wire : Covered(wire[i].upTo))'
    <3> SUFFICES ASSUME NEW i \in DOMAIN wire', NEW k \in DOMAIN log', k > wire'[i].upTo, Recent(k)'
                 PROVE  OnTheWire(k)'
      BY DEF Covered
    <3>1. lastEventId # NoId /\ lastEventId \in Nat
      BY <1>1 DEF TypeOK
    <3>2. wire'[i].upTo = Base + wire'[i].id /\ wire'[i].id > lastEventId /\ wire'[i].id \in Nat
      BY <1>5, <3>1
    <3>3. k \in DOMAIN log /\ Recent(k) /\ k > Base + lastEventId /\ k > Base
      BY <1>2, <1>3, <3>1, <3>2 DEF Recent
    <3> QED
      BY <1>5, <3>1, <3>3 DEF OnTheWire
  <2>3. (joinedAt # NoId => Covered(cursor))'
    <3> SUFFICES ASSUME joinedAt # NoId, NEW k \in DOMAIN log', k > cursor, Recent(k)'
                 PROVE  OnTheWire(k)'
      BY <1>3 DEF Covered
    <3>1. lastEventId \in Nat /\ lastEventId # NoId /\ cursor = Base + lastEventId
      BY <1>2 DEF CursorInv
    <3>2. k \in DOMAIN log /\ Recent(k) /\ k > Base + lastEventId /\ k > Base
      BY <1>2, <1>3, <3>1 DEF Recent
    <3> QED
      BY <1>5, <3>1, <3>2 DEF OnTheWire
  <2>4. (joinedAt # NoId =>
            \A k \in DOMAIN log : k > joinedAt /\ k <= cursor /\ Recent(k) => Delivered(k))'
    BY <1>3 DEF CoverInv, Delivered, Recent
  <2> QED
    BY <2>1, <2>2, <2>3, <2>4 DEF CoverInv
<1> QED
  BY <1>7, <1>8, <1>9, <1>10, <1>11

\* Reads: the frame read is the next of the log for this device.
LEMMA ReadsStep ==
  ASSUME StreamInv, Reads
  PROVE  TypeOK' /\ BusInv' /\ WireInv' /\ CursorInv' /\ CoverInv'
<1> DEFINE f == wire[1]
<1> USE DEF StreamInv
<1>1. /\ phase = "open" /\ wire # <<>>
      /\ lastEventId' = f.id /\ cursor' = f.upTo
      /\ got' = IF f.at = 0 THEN got ELSE Append(got, f.at)
      /\ joinedAt' = IF joinedAt = NoId THEN f.upTo ELSE joinedAt
      /\ wire' = Tail(wire)
      /\ UNCHANGED <<server, lastSentId, beats, phase, stopping, signedIn, openedAt, spent>>
  BY DEF Reads
<1>2. /\ Len(log) \in Nat /\ DOMAIN log = 1..Len(log) /\ nextId \in Nat /\ lastSentId \in Nat
      /\ Len(wire) \in Nat /\ DOMAIN wire = 1..Len(wire)
      /\ \A i \in DOMAIN wire : wire[i].id \in Nat /\ wire[i].at \in Nat /\ wire[i].upTo \in Nat
      /\ cursor \in Nat /\ NoId \notin Nat /\ Base \in Nat
  BY Typed
<1>3. /\ log' = log /\ nextId' = nextId /\ buffer' = buffer /\ granted' = granted
      /\ lastSentId' = lastSentId /\ phase' = phase /\ Base' = Base
  BY <1>1 DEF server, Base
<1>4. wire \in Seq(Frame) /\ Len(wire) > 0 /\ 1 \in DOMAIN wire
  BY <1>1, <1>2 DEF TypeOK
<1>5. /\ wire' \in Seq(Frame) /\ Len(wire') = Len(wire) - 1 /\ DOMAIN wire' = 1..(Len(wire) - 1)
      /\ \A i \in 1..(Len(wire) - 1) : wire'[i] = wire[i + 1] /\ i + 1 \in DOMAIN wire
  BY <1>1, <1>2, <1>4
<1>6. f.id \in Nat /\ f.at \in Nat /\ f.upTo \in Nat /\ f.upTo = Base + f.id /\ f.id <= lastSentId
  BY <1>2, <1>4 DEF WireInv
<1>7. lastSentId < nextId
  BY <1>1 DEF WireInv
<1> HIDE DEF f
<1>8. TypeOK'
  <2>1. got' \in Seq(Nat)
    BY <1>1, <1>6 DEF TypeOK
  <2>2. lastEventId' \in Nat \cup {NoId} /\ cursor' \in Nat /\ joinedAt' \in Nat \cup {NoId}
    BY <1>1, <1>6 DEF TypeOK
  <2> QED
    BY <1>1, <1>5, <2>1, <2>2 DEF TypeOK, server
<1>9. BusInv'
  BY <1>3 DEF BusInv
<1>10. WireInv'
  <2>1. ASSUME NEW i \in DOMAIN wire'
        PROVE  /\ wire'[i].upTo = Base' + wire'[i].id
               /\ wire'[i].id <= lastSentId'
               /\ wire'[i].at # 0 => /\ wire'[i].at = wire'[i].upTo
                                     /\ wire'[i].id > 0
                                     /\ log'[wire'[i].at] # "other"
    <3>1. i + 1 \in DOMAIN wire /\ wire'[i] = wire[i + 1]
      BY <1>5, <2>1
    <3> QED
      BY <1>3, <3>1 DEF WireInv
  <2>2. ASSUME NEW i \in DOMAIN wire', NEW j \in DOMAIN wire', i < j
        PROVE  /\ wire'[i].id <= wire'[j].id
               /\ wire'[j].at # 0 => wire'[i].id < wire'[j].id
    <3>1. i + 1 \in DOMAIN wire /\ j + 1 \in DOMAIN wire /\ i + 1 < j + 1
      BY <1>2, <1>5, <2>2
    <3> QED
      BY <1>5, <2>2, <3>1 DEF WireInv
  <2> QED
    BY <1>1, <1>3, <1>7, <2>1, <2>2 DEF WireInv
<1>11. \A i \in DOMAIN wire : i # 1 => /\ f.id <= wire[i].id
                                       /\ wire[i].at # 0 => f.id < wire[i].id
  <2> SUFFICES ASSUME NEW i \in DOMAIN wire, i # 1
               PROVE  f.id <= wire[i].id /\ (wire[i].at # 0 => f.id < wire[i].id)
    OBVIOUS
  <2>1. 1 < i
    BY <1>2
  <2> QED
    BY <1>4, <2>1 DEF WireInv, f
<1>12. CursorInv'
  <2>1. joinedAt' # NoId
    BY <1>1, <1>2, <1>6
  <2>2. lastEventId' \in Nat /\ lastEventId' < nextId' /\ cursor' = Base' + lastEventId'
    BY <1>1, <1>2, <1>3, <1>6, <1>7
  <2>3. Base' <= joinedAt' /\ joinedAt' <= cursor'
    <3>1. CASE joinedAt = NoId
      BY <1>1, <1>2, <1>3, <1>6, <3>1
    <3>2. CASE joinedAt # NoId
      <4>1. /\ lastEventId \in Nat /\ cursor = Base + lastEventId
            /\ Base <= joinedAt /\ joinedAt <= cursor /\ joinedAt \in Nat
        BY <3>2 DEF CursorInv, TypeOK
      <4>2. lastEventId <= f.id
        BY <1>4, <3>2 DEF CursorInv, f
      <4> QED
        BY <1>1, <1>2, <1>3, <1>6, <3>2, <4>1, <4>2
    <3> QED
      BY <3>1, <3>2
  <2>4. lastEventId' <= lastSentId'
    BY <1>1, <1>3, <1>6
  <2>5. \A i \in DOMAIN wire' : /\ lastEventId' <= wire'[i].id
                                /\ wire'[i].at # 0 => lastEventId' < wire'[i].id
    <3> TAKE i \in DOMAIN wire'
    <3>1. wire'[i] = wire[i + 1] /\ i + 1 \in DOMAIN wire /\ i + 1 # 1
      BY <1>2, <1>5
    <3> QED
      BY <1>1, <1>11, <3>1
  <2> QED
    BY <2>1, <2>2, <2>3, <2>4, <2>5 DEF CursorInv
<1>13. ASSUME NEW k \in DOMAIN log, NEW p \in Nat, p >= f.upTo, k > p, OnTheWire(k)
       PROVE  OnTheWire(k)'
  <2>1. PICK i \in DOMAIN wire : wire[i].at = k
    BY <1>13 DEF OnTheWire
  <2>2. i # 1
    <3> SUFFICES ASSUME i = 1 PROVE FALSE
      OBVIOUS
    <3>1. f.at = k /\ f.at # 0
      BY <1>2, <2>1 DEF f
    <3>2. f.at = f.upTo
      BY <1>4, <3>1 DEF WireInv, f
    <3> QED
      BY <1>2, <1>6, <1>13, <3>1, <3>2
  <2>3. i - 1 \in DOMAIN wire' /\ wire'[i - 1] = wire[i]
    BY <1>2, <1>5, <2>2
  <2> QED
    BY <2>1, <2>3 DEF OnTheWire
<1>14. \A k : Recent(k)' <=> Recent(k)
  BY <1>3 DEF Recent
<1>15. CoverInv'
  <2>1. \A k \in DOMAIN log' : k > Base' + lastSentId' => log'[k] # "own"
    BY <1>1, <1>3 DEF CoverInv
  <2>2. (\A i \in DOMAIN wire : Covered(wire[i].upTo))'
    <3> SUFFICES ASSUME NEW i \in DOMAIN wire', NEW k \in DOMAIN log', k > wire'[i].upTo, Recent(k)'
                 PROVE  OnTheWire(k)'
      BY DEF Covered
    <3>1. wire'[i] = wire[i + 1] /\ i + 1 \in DOMAIN wire /\ i + 1 # 1
      BY <1>2, <1>5
    <3>2. wire'[i].upTo \in Nat /\ wire'[i].upTo >= f.upTo
      <4>1. wire[i + 1].upTo = Base + wire[i + 1].id /\ f.id <= wire[i + 1].id
        BY <1>11, <3>1 DEF WireInv
      <4> QED
        BY <1>2, <1>6, <3>1, <4>1
    <3>3. OnTheWire(k)
      BY <1>1, <1>3, <1>14, <3>1 DEF CoverInv, Covered
    <3> QED
      BY <1>3, <1>13, <3>2, <3>3
  <2>3. (joinedAt # NoId => Covered(cursor))'
    <3> SUFFICES ASSUME NEW k \in DOMAIN log', k > cursor', Recent(k)'
                 PROVE  OnTheWire(k)'
      BY DEF Covered
    <3>1. OnTheWire(k)
      BY <1>1, <1>3, <1>4, <1>14 DEF CoverInv, Covered, f
    <3> QED
      BY <1>1, <1>2, <1>3, <1>6, <1>13, <3>1
  <2>4. \A k : Delivered(k) => Delivered(k)'
    <3> SUFFICES ASSUME NEW k, NEW i \in DOMAIN got, got[i] = k PROVE Delivered(k)'
      BY DEF Delivered
    <3>1. i \in DOMAIN got' /\ got'[i] = got[i]
      BY <1>1, <1>6, SMTT(30) DEF TypeOK
    <3> QED
      BY <3>1 DEF Delivered
  <2>5. \A k : f.at # 0 /\ k = f.at => Delivered(k)'
    <3> SUFFICES ASSUME NEW k, f.at # 0, k = f.at PROVE Delivered(k)'
      OBVIOUS
    <3>1. Len(got') \in DOMAIN got' /\ got'[Len(got')] = f.at
      BY <1>1, <1>6 DEF TypeOK
    <3> QED
      BY <3>1 DEF Delivered
  <2>6. ASSUME joinedAt' # NoId, NEW k \in DOMAIN log', k > joinedAt', k <= cursor', Recent(k)'
        PROVE  Delivered(k)'
    <3>1. joinedAt # NoId /\ joinedAt' = joinedAt
      BY <1>1, <1>2, <1>3, <1>6, <2>6
    <3>2. CASE k <= cursor
      BY <1>3, <1>14, <2>4, <2>6, <3>1, <3>2 DEF CoverInv
    <3>3. CASE k > cursor
      <4>1. PICK i \in DOMAIN wire : wire[i].at = k
        BY <1>1, <1>3, <1>14, <2>6, <3>1, <3>3 DEF CoverInv, Covered, OnTheWire
      <4>2. i = 1
        <5> SUFFICES ASSUME i # 1 PROVE FALSE
          OBVIOUS
        <5>1. wire[i].at # 0 /\ k \in Nat
          BY <1>2, <1>3, <2>6, <4>1
        <5>2. wire[i].upTo = k /\ wire[i].upTo = Base + wire[i].id /\ f.id < wire[i].id
          BY <1>11, <4>1, <5>1 DEF WireInv
        <5> QED
          BY <1>1, <1>2, <1>6, <2>6, <5>1, <5>2
      <4>3. f.at = k /\ f.at # 0
        BY <1>2, <1>3, <2>6, <4>1, <4>2 DEF f
      <4> QED
        BY <2>5, <4>3
    <3> QED
      BY <1>2, <1>3, <2>6, <3>2, <3>3
  <2> QED
    BY <2>1, <2>2, <2>3, <2>6 DEF CoverInv
<1> QED
  BY <1>8, <1>9, <1>10, <1>12, <1>15

---------------------------------------------------------------------------
(* Every step of the client core, as the stream sees it. *)

\* What moves the stream: a step of its own, a request refused, or a session
\* announced.
Moves ==
    \/ Next
    \/ Denied
    \/ AnotherSession /\ UNCHANGED spent
    \/ NoSession /\ UNCHANGED spent
    \/ SessionThere /\ UNCHANGED spent

LEMMA CoreMoves == [CoreNext]_coreVars => Moves \/ UNCHANGED vars
<1> SUFFICES ASSUME CoreNext PROVE Moves \/ UNCHANGED vars
  BY DEF coreVars
<1>1. ASSUME Together PROVE Moves \/ UNCHANGED vars
  <2>1. CASE StreamRuns
    BY <2>1 DEF StreamRuns, Moves, Next, ServerStep, ClientStep
  <2>2. CASE Announced
    BY <2>2 DEF Announced, Moves
  <2> QED
    BY <1>1, <2>1, <2>2 DEF Together
<1> QED
  BY <1>1 DEF CoreNext, Moves

LEMMA SpentTyped ==
  ASSUME TypeOK
  PROVE  /\ spent.losses < MaxLosses =>
               [spent EXCEPT !.losses = @ + 1] \in [losses: 0..MaxLosses, restarts: 0..MaxRestarts,
                                                    grants: 0..MaxGrants, changes: 0..MaxChanges]
         /\ spent.grants < MaxGrants =>
               [spent EXCEPT !.grants = @ + 1] \in [losses: 0..MaxLosses, restarts: 0..MaxRestarts,
                                                    grants: 0..MaxGrants, changes: 0..MaxChanges]
         /\ spent.changes < MaxChanges =>
               [spent EXCEPT !.changes = @ + 1] \in [losses: 0..MaxLosses, restarts: 0..MaxRestarts,
                                                     grants: 0..MaxGrants, changes: 0..MaxChanges]
<1>1. spent \in [losses: 0..MaxLosses, restarts: 0..MaxRestarts,
                 grants: 0..MaxGrants, changes: 0..MaxChanges]
  BY DEF TypeOK
<1>2. /\ spent.losses < MaxLosses => spent.losses + 1 \in 0..MaxLosses
      /\ spent.grants < MaxGrants => spent.grants + 1 \in 0..MaxGrants
      /\ spent.changes < MaxChanges => spent.changes + 1 \in 0..MaxChanges
  BY StreamAssumption, <1>1
<1> QED
  BY <1>1, <1>2

\* The steps that leave the server, the resume point and the history alone.
LEMMA OtherStep ==
  ASSUME StreamInv,
         \/ ChangeGrant \/ Asks \/ Loses \/ Wakes \/ LoopEnds \/ Denied
         \/ AnotherSession /\ (Changes \/ UNCHANGED spent)
         \/ NoSession /\ (Changes \/ UNCHANGED spent)
         \/ SessionThere /\ UNCHANGED spent
  PROVE  /\ TypeOK'
         /\ UNCHANGED <<log, nextId, buffer, lastSentId, lastEventId, history>>
         /\ \/ phase' = phase /\ wire' = wire
            \/ phase' # "open" /\ wire' = <<>>
<1> USE DEF StreamInv
<1>1. wire = <<>> \/ phase = "open"
  BY DEF WireInv
<1>2. /\ spent.losses < MaxLosses =>
            [spent EXCEPT !.losses = @ + 1] \in [losses: 0..MaxLosses, restarts: 0..MaxRestarts,
                                                 grants: 0..MaxGrants, changes: 0..MaxChanges]
      /\ spent.grants < MaxGrants =>
            [spent EXCEPT !.grants = @ + 1] \in [losses: 0..MaxLosses, restarts: 0..MaxRestarts,
                                                 grants: 0..MaxGrants, changes: 0..MaxChanges]
      /\ spent.changes < MaxChanges =>
            [spent EXCEPT !.changes = @ + 1] \in [losses: 0..MaxLosses, restarts: 0..MaxRestarts,
                                                  grants: 0..MaxGrants, changes: 0..MaxChanges]
  BY SpentTyped
<1>3. <<>> \in Seq(Frame)
  OBVIOUS
<1>4. CASE ChangeGrant
  <2>1. granted' \in BOOLEAN
    BY <1>4 DEF ChangeGrant, TypeOK
  <2> QED
    BY <1>2, <1>4, <2>1 DEF ChangeGrant, TypeOK, connection, client, history
<1>5. CASE Asks
  BY <1>1, <1>5 DEF Asks, TypeOK, server, connection, history
<1>6. CASE Wakes
  BY <1>1, <1>6 DEF Wakes, TypeOK, server, connection, history
<1>7. CASE Loses
  BY <1>2, <1>3, <1>7 DEF Loses, TypeOK, server, history
<1>8. CASE LoopEnds
  BY <1>3, <1>8 DEF LoopEnds, TypeOK, server, history
<1>9. CASE Denied
  BY <1>1, <1>9 DEF Denied, TypeOK, server, connection, history
<1>10. ASSUME Changes \/ UNCHANGED spent
       PROVE  spent' \in [losses: 0..MaxLosses, restarts: 0..MaxRestarts,
                          grants: 0..MaxGrants, changes: 0..MaxChanges]
  BY <1>2, <1>10 DEF Changes, TypeOK
<1>11. CASE AnotherSession /\ (Changes \/ UNCHANGED spent)
  BY <1>1, <1>10, <1>11 DEF AnotherSession, Start, TypeOK, server, connection, history
<1>12. CASE NoSession /\ (Changes \/ UNCHANGED spent)
  <2>1. stopping' \in BOOLEAN /\ signedIn' \in BOOLEAN
    BY <1>12 DEF NoSession
  <2> QED
    BY <1>10, <1>12, <2>1 DEF NoSession, TypeOK, server, connection, history
<1>13. CASE SessionThere /\ UNCHANGED spent
  BY <1>1, <1>13 DEF SessionThere, Start, TypeOK, server, connection, history
<1> QED
  BY <1>4, <1>5, <1>6, <1>7, <1>8, <1>9, <1>11, <1>12, <1>13

LEMMA MoveKinds ==
  ASSUME Moves
  PROVE  \/ \E kind \in Kinds : Publish(kind)
         \/ Opens \/ Heartbeat \/ Restart \/ Reads
         \/ ChangeGrant \/ Asks \/ Loses \/ Wakes \/ LoopEnds \/ Denied
         \/ AnotherSession /\ (Changes \/ UNCHANGED spent)
         \/ NoSession /\ (Changes \/ UNCHANGED spent)
         \/ SessionThere /\ UNCHANGED spent
  BY DEF Moves, Next, ServerStep, ClientStep, SessionRefreshed, SignedOut, PairedAgain

LEMMA StreamStep ==
  ASSUME StreamInv, [CoreNext]_coreVars
  PROVE  StreamInv'
<1>1. CASE UNCHANGED vars
  <2>1. TypeOK'
    BY <1>1 DEF StreamInv, TypeOK, vars, server, connection, client, history
  <2>2. /\ UNCHANGED <<log, nextId, buffer, lastSentId, lastEventId, history>>
        /\ phase' = phase /\ wire' = wire
    BY <1>1 DEF vars, server, connection, client
  <2>3. BusInv' /\ WireInv' /\ CursorInv' /\ CoverInv'
    BY <2>2, QuietStep
  <2> QED
    BY <2>1, <2>3 DEF StreamInv
<1>2. CASE \E kind \in Kinds : Publish(kind)
  BY <1>2, PublishStep DEF StreamInv
<1>3. CASE Opens
  BY <1>3, OpensStep DEF StreamInv
<1>4. CASE Heartbeat
  BY <1>4, HeartbeatStep DEF StreamInv
<1>5. CASE Restart
  BY <1>5, RestartStep DEF StreamInv
<1>6. CASE Reads
  BY <1>6, ReadsStep DEF StreamInv
<1>7. CASE \/ ChangeGrant \/ Asks \/ Loses \/ Wakes \/ LoopEnds \/ Denied
           \/ AnotherSession /\ (Changes \/ UNCHANGED spent)
           \/ NoSession /\ (Changes \/ UNCHANGED spent)
           \/ SessionThere /\ UNCHANGED spent
  BY <1>7, OtherStep, QuietStep DEF StreamInv
<1> QED
  BY <1>1, <1>2, <1>3, <1>4, <1>5, <1>6, <1>7, CoreMoves, MoveKinds

LEMMA StreamStart == MCInit => StreamInv
<1> SUFFICES ASSUME MCInit PROVE StreamInv
  OBVIOUS
<1>1. /\ log = <<>> /\ nextId = 1 /\ buffer = <<>> /\ granted = TRUE
      /\ lastSentId = 0 /\ wire = <<>> /\ beats = 0
      /\ phase \in {"off", "ready"} /\ stopping = FALSE /\ signedIn \in BOOLEAN
      /\ lastEventId = NoId
      /\ got = <<>> /\ cursor = 0 /\ joinedAt = NoId /\ openedAt = NoId
  BY DEF MCInit, Init, NoStreamMoves, PairedStream
<1>2. \/ spent = [losses |-> 0, restarts |-> 0, grants |-> 0, changes |-> 0]
      \/ spent = [losses |-> MaxLosses, restarts |-> MaxRestarts,
                  grants |-> MaxGrants, changes |-> 0]
  BY DEF MCInit, Init, NoStreamMoves, PairedStream
<1>3. spent \in [losses: 0..MaxLosses, restarts: 0..MaxRestarts,
                 grants: 0..MaxGrants, changes: 0..MaxChanges]
  BY StreamAssumption, <1>2
<1>4. /\ Len(log) = 0 /\ DOMAIN log = {} /\ Len(buffer) = 0 /\ DOMAIN buffer = {}
      /\ DOMAIN wire = {}
  <2>1. Len(<<>>) = 0 /\ DOMAIN <<>> = 1..Len(<<>>)
    BY EmptySeq, LenProperties
  <2>2. 1..0 = {}
    OBVIOUS
  <2> QED
    BY <1>1, <2>1, <2>2
<1>5. TypeOK
  <2>1. log \in Seq(Kinds) /\ buffer \in Seq(Stored) /\ wire \in Seq(Frame) /\ got \in Seq(Nat)
    BY <1>1
  <2>2. beats \in 0..MaxBeats /\ Len(buffer) <= BufferSize
    BY StreamAssumption, <1>1, <1>4
  <2>3. /\ granted \in BOOLEAN /\ stopping \in BOOLEAN /\ signedIn \in BOOLEAN
        /\ phase \in {"off", "ready", "asking", "open", "waiting"}
    BY <1>1
  <2>4. /\ nextId \in Nat \ {0} /\ lastSentId \in Nat /\ cursor \in Nat
        /\ lastEventId \in Nat \cup {NoId} /\ joinedAt \in Nat \cup {NoId}
        /\ openedAt \in Nat \cup {NoId}
    BY <1>1
  <2> QED
    BY <1>3, <2>1, <2>2, <2>3, <2>4 DEF TypeOK
<1>6. BusInv
  BY StreamAssumption, <1>1, <1>4 DEF BusInv
<1>7. WireInv
  BY <1>1, <1>4 DEF WireInv
<1>8. CursorInv
  BY <1>1, <1>4 DEF CursorInv, Base
<1>9. CoverInv
  BY <1>1 DEF CoverInv
<1> QED
  BY <1>5, <1>6, <1>7, <1>8, <1>9 DEF StreamInv

LEMMA StreamInvariant == CoreSpec => []StreamInv
<1>1. MCInit => StreamInv
  BY StreamStart
<1>2. StreamInv /\ [CoreNext]_coreVars => StreamInv'
  BY StreamStep
<1> QED
  BY <1>1, <1>2, PTL DEF CoreSpec

\* Whatever connections are lost, whenever the server starts again or the
\* session changes, none of the last BufferSize events of the device is lost to
\* a client that has read from the server as it runs now: it is delivered, on
\* the wire, or replayed after the resume point (events/bus.ts, events.ts).
THEOREM Stream == CoreSpec => []StreamHolds
<1>1. StreamInv => StreamHolds
  <2> SUFFICES ASSUME StreamInv, joinedAt # NoId,
                      NEW k \in DOMAIN log, k > joinedAt, Recent(k)
               PROVE  Pending(k)
    BY DEF StreamInv, StreamHolds, NothingMissedOnceJoined
  <2> USE DEF StreamInv
  <2>1. CASE k <= cursor
    BY <2>1 DEF CoverInv, Pending
  <2>2. CASE k > cursor /\ phase = "open"
    BY <2>2 DEF CoverInv, Covered, Pending
  <2>3. CASE k > cursor /\ phase # "open"
    <3>1. /\ Len(log) \in Nat /\ DOMAIN log = 1..Len(log) /\ nextId \in Nat /\ nextId > 0
          /\ Len(buffer) \in Nat /\ DOMAIN buffer = 1..Len(buffer)
          /\ BufferSize \in Nat /\ BufferSize > 0 /\ Base \in Nat
      BY Typed
    <3>2. lastEventId \in Nat /\ cursor = Base + lastEventId /\ lastEventId # NoId
      BY StreamAssumption DEF CursorInv
    <3> DEFINE i == k - Len(log) + Len(buffer)
    <3>3. k \in Nat /\ k <= Len(log) /\ k + BufferSize > Len(log)
      BY <3>1 DEF Recent
    <3>4. Len(buffer) = IF nextId - 1 < BufferSize THEN nextId - 1 ELSE BufferSize
      BY DEF BusInv
    <3>5. Base = Len(log) + 1 - nextId
      BY DEF Base
    <3>6. i \in 1..Len(buffer)
      BY <2>3, <3>1, <3>2, <3>3, <3>4, <3>5
    <3>7. Len(log) - Len(buffer) + i = k /\ nextId - 1 - Len(buffer) + i > lastEventId
      BY <2>3, <3>1, <3>2, <3>3, <3>5
    <3> HIDE DEF i
    <3>8. buffer[i] = [id |-> nextId - 1 - Len(buffer) + i, at |-> Len(log) - Len(buffer) + i]
      BY <3>1, <3>6 DEF BusInv
    <3>9. buffer[i].at = k /\ buffer[i].id > lastEventId /\ i \in DOMAIN buffer
      BY <3>1, <3>6, <3>7, <3>8
    <3> QED
      BY <2>3, <3>2, <3>9 DEF Pending, WillBeReplayed
  <2>4. k \in Nat /\ cursor \in Nat
    BY Typed
  <2> QED
    BY <2>1, <2>2, <2>3, <2>4
<1> QED
  BY <1>1, StreamInvariant, PTL

---------------------------------------------------------------------------
(* The stream implements EventLog: a frame of an event delivers it, a      *)
(* heartbeat passes over what the device may not see, a restart lapses.    *)

\* What the frame at the head of the wire says.
LEMMA HeadOfWire ==
  ASSUME StreamInv, Reads
  PROVE  LET f == wire[1]
         IN /\ log' = log
            /\ cursor' = f.upTo /\ joinedAt' # NoId
            /\ got' = IF f.at = 0 THEN got ELSE Append(got, f.upTo)
            /\ f.upTo \in 0..Len(log)
            /\ f.at # 0 => log[f.upTo] # "other" /\ f.upTo > cursor
            /\ joinedAt # NoId => f.upTo >= cursor
            /\ joinedAt # NoId =>
                  \A j \in (cursor + 1)..f.upTo :
                      (f.at = 0 \/ j # f.upTo) => Abstract!Passable(j)
<1> DEFINE f == wire[1]
<1> USE DEF StreamInv
<1>1. /\ phase = "open" /\ wire # <<>> /\ cursor' = f.upTo /\ log' = log
      /\ got' = IF f.at = 0 THEN got ELSE Append(got, f.at)
      /\ joinedAt' = IF joinedAt = NoId THEN f.upTo ELSE joinedAt
  BY DEF Reads, server
<1>2. /\ Len(log) \in Nat /\ DOMAIN log = 1..Len(log) /\ nextId \in Nat /\ lastSentId \in Nat
      /\ Len(wire) \in Nat /\ DOMAIN wire = 1..Len(wire)
      /\ \A i \in DOMAIN wire : wire[i].id \in Nat /\ wire[i].at \in Nat /\ wire[i].upTo \in Nat
      /\ cursor \in Nat /\ NoId \notin Nat /\ Base \in Nat /\ BufferSize \in Nat
  BY Typed
<1>3. wire \in Seq(Frame) /\ 1 \in DOMAIN wire
  BY <1>1, <1>2 DEF TypeOK
<1>4. /\ f.id \in Nat /\ f.at \in Nat /\ f.upTo \in Nat /\ f.upTo = Base + f.id /\ f.id <= lastSentId
      /\ f.at # 0 => f.at = f.upTo /\ f.id > 0 /\ log[f.at] # "other"
  BY <1>2, <1>3 DEF WireInv
<1>5. joinedAt # NoId => /\ lastEventId \in Nat /\ cursor = Base + lastEventId
                         /\ lastEventId <= f.id /\ (f.at # 0 => lastEventId < f.id)
  BY <1>3 DEF CursorInv
<1>6. joinedAt = NoId => cursor <= Base
  BY DEF CursorInv
<1>7. f.upTo \in 0..Len(log)
  <2>1. lastSentId < nextId
    BY <1>1 DEF WireInv
  <2> QED
    BY <1>2, <1>4, <2>1 DEF Base
<1>8. ASSUME joinedAt # NoId, NEW j \in (cursor + 1)..f.upTo, f.at = 0 \/ j # f.upTo
      PROVE  Abstract!Passable(j)
  <2> SUFFICES ASSUME ~Abstract!Passable(j) PROVE FALSE
    OBVIOUS
  <2>1. j \in DOMAIN log /\ j > cursor
    BY <1>2, <1>7, <1>8
  <2>2. log[j] = "own" /\ j + BufferSize > Len(log)
    BY <1>2, <2>1 DEF Abstract!Passable
  <2>3. Recent(j)
    BY <2>1, <2>2 DEF Recent
  <2>4. PICK i \in DOMAIN wire : wire[i].at = j
    BY <1>1, <1>8, <2>1, <2>3 DEF CoverInv, Covered, OnTheWire
  <2>5. wire[i].at # 0 /\ wire[i].at = wire[i].upTo /\ wire[i].upTo = Base + wire[i].id
    BY <1>2, <2>1, <2>4 DEF WireInv
  <2>6. i # 1
    BY <1>4, <1>8, <2>4, <2>5
  <2>7. f.id < wire[i].id
    <3>1. 1 < i
      BY <1>2, <2>6
    <3> QED
      BY <1>3, <2>5, <3>1 DEF WireInv
  <2> QED
    BY <1>2, <1>4, <1>8, <2>4, <2>5, <2>7
<1>9. f.at # 0 => log[f.upTo] # "other" /\ f.upTo > cursor
  BY <1>2, <1>4, <1>5, <1>6
<1>10. joinedAt # NoId => f.upTo >= cursor
  BY <1>2, <1>4, <1>5
<1> HIDE DEF f
<1>11. got' = IF f.at = 0 THEN got ELSE Append(got, f.upTo)
  BY <1>1, <1>4
<1>12. joinedAt' # NoId
  BY <1>1, <1>2, <1>4
<1> QED
  BY <1>1, <1>7, <1>8, <1>9, <1>10, <1>11, <1>12 DEF f

LEMMA EventLogStep ==
  ASSUME StreamInv, [CoreNext]_coreVars
  PROVE  [Abstract!ELNext]_(Abstract!elVars)
<1> DEFINE joined == joinedAt # NoId
<1>1. ASSUME UNCHANGED <<log, history>> PROVE UNCHANGED Abstract!elVars
  BY <1>1 DEF Abstract!elVars, history
<1>2. ASSUME NEW kind \in Kinds, Publish(kind) PROVE Abstract!ELNext
  <2>1. Abstract!Append1(kind)
    BY <1>2 DEF Publish, Abstract!Append1, history
  <2> QED
    BY <2>1 DEF Abstract!ELNext, Abstract!Kinds, Kinds
<1>3. CASE Opens
  BY <1>3 DEF Opens, server, Abstract!elVars
<1>4. CASE Heartbeat
  BY <1>1, <1>4 DEF Heartbeat, server
<1>5. CASE Restart
  <2>1. Abstract!Lapse
    BY <1>5 DEF Restart, Abstract!Lapse
  <2> QED
    BY <2>1 DEF Abstract!ELNext
<1>6. CASE Reads
  <2> DEFINE f == wire[1]
             k == f.upTo
  <2>1. /\ log' = log
        /\ cursor' = k /\ joinedAt' # NoId
        /\ got' = IF f.at = 0 THEN got ELSE Append(got, k)
        /\ k \in 0..Len(log)
        /\ f.at # 0 => log[k] # "other" /\ k > cursor
        /\ joinedAt # NoId => k >= cursor
        /\ joinedAt # NoId => \A j \in (cursor + 1)..k : (f.at = 0 \/ j # k) => Abstract!Passable(j)
    BY <1>6, HeadOfWire
  <2>2. Len(log) \in Nat /\ cursor \in Nat
    BY Typed DEF StreamInv
  <2>3. \A j \in (cursor + 1)..(k - 1) : j \in (cursor + 1)..k /\ j # k
    BY <2>1, <2>2
  <2>4. k > cursor => k \in (cursor + 1)..k
    BY <2>1, <2>2
  <2> HIDE DEF f, k
  <2>5. joined /\ k > cursor => \A j \in (cursor + 1)..(k - 1) : Abstract!Passable(j)
    BY <2>1, <2>3
  <2>6. ~joined \/ k > cursor => Abstract!Reach(k)
    BY <2>1, <2>5 DEF Abstract!Reach
  <2>7. CASE f.at # 0
    <3>1. Abstract!Deliver(k)
      BY <2>1, <2>6, <2>7 DEF Abstract!Deliver
    <3> QED
      BY <2>1, <3>1 DEF Abstract!ELNext
  <2>8. CASE f.at = 0 /\ (~joined \/ k > cursor)
    <3>1. joined => Abstract!Passable(k)
      BY <2>1, <2>4, <2>8
    <3>2. Abstract!PassOver(k)
      BY <2>1, <2>6, <2>8, <3>1 DEF Abstract!PassOver
    <3> QED
      BY <2>1, <3>2 DEF Abstract!ELNext
  <2>9. CASE f.at = 0 /\ joined /\ k = cursor
    BY <2>1, <2>9 DEF Abstract!elVars
  <2> QED
    BY <2>1, <2>2, <2>7, <2>8, <2>9
<1>7. CASE \/ ChangeGrant \/ Asks \/ Loses \/ Wakes \/ LoopEnds \/ Denied
           \/ AnotherSession /\ (Changes \/ UNCHANGED spent)
           \/ NoSession /\ (Changes \/ UNCHANGED spent)
           \/ SessionThere /\ UNCHANGED spent
  BY <1>1, <1>7, OtherStep
<1>8. CASE UNCHANGED vars
  BY <1>1, <1>8 DEF vars, server
<1> QED
  BY <1>2, <1>3, <1>4, <1>5, <1>6, <1>7, <1>8, CoreMoves, MoveKinds

\* What the step writes to the wire is visible.
Shown ==
    \A i \in DOMAIN wire' :
        LET k == wire'[i].at IN
        k # 0 /\ (\A j \in DOMAIN wire : wire[j].at # k) => Visible(log'[k])

LEMMA HiddenStep ==
  ASSUME StreamInv, [CoreNext]_coreVars
  PROVE  Shown \/ UNCHANGED vars
<1> USE DEF Shown
<1>1. /\ Len(log) \in Nat /\ Len(wire) \in Nat /\ DOMAIN wire = 1..Len(wire)
      /\ Len(buffer) \in Nat /\ DOMAIN buffer = 1..Len(buffer)
      /\ wire \in Seq(Frame) /\ log \in Seq(Kinds) /\ buffer \in Seq(Stored)
  BY Typed DEF StreamInv, TypeOK
<1>2. ASSUME \A i \in DOMAIN wire' : \E j \in DOMAIN wire : wire'[i].at = wire[j].at
      PROVE  Shown
  BY <1>2
<1>3. ASSUME NEW kind \in Kinds, Publish(kind) PROVE Shown
  <2> DEFINE f == [id |-> nextId, at |-> Len(log) + 1, upTo |-> Len(log) + 1]
  <2>1. CASE wire' = wire
    BY <1>2, <2>1
  <2>2. CASE Visible(kind) /\ wire' = Append(wire, f)
    <3>1. /\ DOMAIN wire' = 1..(Len(wire) + 1) /\ wire'[Len(wire) + 1] = f
          /\ \A i \in DOMAIN wire : wire'[i] = wire[i]
      BY <1>1, <2>2
    <3>2. f.at = Len(log) + 1 /\ log'[Len(log) + 1] = kind
      BY <1>1, <1>3 DEF Publish
    <3> SUFFICES ASSUME NEW i \in DOMAIN wire',
                        \A j \in DOMAIN wire : wire[j].at # wire'[i].at
                 PROVE  Visible(log'[wire'[i].at])
      OBVIOUS
    <3>3. i = Len(wire) + 1
      BY <1>1, <3>1
    <3> QED
      BY <2>2, <3>1, <3>2, <3>3
  <2> QED
    BY <1>3, <2>1, <2>2 DEF Publish
<1>4. CASE Opens
  <2>1. log' = log /\ wire' = IF lastEventId = NoId THEN <<>> ELSE Frames(Replay(lastEventId))
    BY <1>4 DEF Opens, Serve, server
  <2>2. CASE lastEventId = NoId
    BY <2>1, <2>2
  <2>3. CASE lastEventId # NoId
    <3> DEFINE I == {i \in DOMAIN buffer : buffer[i].id > lastEventId /\ Visible(log[buffer[i].at])}
               R == Chosen(buffer, I)
    <3>1. I \in SUBSET DOMAIN buffer /\ \A i \in I : Visible(log[buffer[i].at])
      OBVIOUS
    <3>2. wire' = Frames(R)
      BY <2>1, <2>3 DEF Replay
    <3> HIDE DEF I
    <3>3. /\ InOrder(R, buffer, I) /\ Cardinality(I) \in Nat
          /\ R \in Seq(Stored) /\ Len(R) = Cardinality(I)
      BY <1>1, <3>1, ChosenLemma
    <3>4. PICK pos \in [1..Cardinality(I) -> I] :
             \A n \in 1..Cardinality(I) : R[n] = buffer[pos[n]]
      BY <3>3 DEF InOrder
    <3>5. DOMAIN R = 1..Cardinality(I)
      BY <3>3
    <3> HIDE DEF R
    <3>6. DOMAIN wire' = DOMAIN R /\ \A n \in DOMAIN R : wire'[n].at = R[n].at
      BY <3>2 DEF Frames
    <3>7. \A n \in DOMAIN wire' : Visible(log[wire'[n].at])
      BY <3>1, <3>4, <3>5, <3>6
    <3> QED
      BY <2>1, <3>7
  <2> QED
    BY <2>2, <2>3
<1>5. CASE Heartbeat
  <2> DEFINE f == [id |-> lastSentId, at |-> 0, upTo |-> PlaceOf(lastSentId)]
  <2>1. f.at = 0 /\ wire' = Append(wire, f)
    BY <1>5 DEF Heartbeat
  <2> HIDE DEF f
  <2>2. /\ DOMAIN wire' = 1..(Len(wire) + 1) /\ wire'[Len(wire) + 1].at = 0
        /\ \A i \in DOMAIN wire : wire'[i] = wire[i]
    BY <1>1, <2>1
  <2> QED
    BY <1>1, <2>2
<1>6. CASE Restart
  BY <1>6 DEF Restart
<1>7. CASE Reads
  <2>1. wire' = Tail(wire) /\ wire # <<>>
    BY <1>7 DEF Reads
  <2>2. \A i \in DOMAIN wire' : wire'[i] = wire[i + 1] /\ i + 1 \in DOMAIN wire
    BY <1>1, <2>1
  <2> QED
    BY <1>2, <2>2
<1>8. CASE \/ ChangeGrant \/ Asks \/ Loses \/ Wakes \/ LoopEnds \/ Denied
           \/ AnotherSession /\ (Changes \/ UNCHANGED spent)
           \/ NoSession /\ (Changes \/ UNCHANGED spent)
           \/ SessionThere /\ UNCHANGED spent
  <2>1. wire' = wire \/ wire' = <<>>
    BY <1>8, OtherStep
  <2>2. CASE wire' = wire
    BY <1>2, <2>2
  <2>3. CASE wire' = <<>>
    BY <2>3
  <2> QED
    BY <2>1, <2>2, <2>3
<1> HIDE DEF Shown
<1> QED
  BY <1>3, <1>4, <1>5, <1>6, <1>7, <1>8, CoreMoves, MoveKinds

\* The stream keeps the promise of EventLog, restarts of the server included:
\* the device's own events in their order, once each, none passed over before
\* BufferSize later ones; and what is written was visible to the device when it
\* was written, replays included (events/bus.ts replay, http/routes/events.ts).
THEOREM StreamImplementsLog == CoreSpec => StreamKeepsItsWord
<1>1. MCInit => Abstract!ELInit
  BY DEF MCInit, Init, NoStreamMoves, PairedStream, Abstract!ELInit
<1>2. StreamInv /\ [CoreNext]_coreVars => [Abstract!ELNext]_(Abstract!elVars)
  BY EventLogStep
<1>3. StreamInv /\ [CoreNext]_coreVars =>
        [Shown]_vars
  BY HiddenStep
<1>4. CoreSpec => KeepsEventLog
  BY <1>1, <1>2, StreamInvariant, PTL DEF CoreSpec, KeepsEventLog, Abstract!ELSpec
<1>5. CoreSpec => NothingHiddenIsWritten
  BY <1>3, StreamInvariant, PTL DEF CoreSpec, NothingHiddenIsWritten, Shown
<1> QED
  BY <1>4, <1>5 DEF StreamKeepsItsWord

---------------------------------------------------------------------------
(* The invariant of the session. *)

\* Whatever names a device names one that was paired.
Known ==
    /\ Held => issued[session.device] > 0
    /\ store # None => issued[store.device] > 0
    /\ \A f \in flights : issued[f.known.device] > 0
    /\ \A r \in requests : issued[r.device] > 0
    /\ \A i \in DOMAIN pending : pending[i].value # None => issued[pending[i].value.device] > 0

\* The server accepts the last token it issued to a device it has not closed,
\* and a refresh is sent for a token that has expired.
Rotation ==
    /\ \A d \in Devices : accepted[d] = IF d \in closed THEN 0 ELSE issued[d]
    /\ \A d \in closed : issued[d] > 0
    /\ \A d \in Devices, t \in 1..MaxTokens : <<d, t>> \in expired => t < MaxTokens
    /\ \A f \in flights :
        /\ <<f.known.device, f.known.token>> \in expired
        /\ f.stage \in {"granted", "writing"} =>
              f.next \in StoredSession /\ f.next.device = f.known.device

OwnCalls ==
    /\ \A f, g \in flights : f.call = g.call => f = g
    /\ \A q, r \in requests : q.call = r.call => q = r
    /\ \A f \in flights, r \in requests : f.call # r.call

\* One flight, and the gate is closed behind it while there is a session.
Single ==
    /\ \A f, g \in flights : f = g
    /\ Held => flights = {} \/ gate # None
    /\ session = Unread => flights = {} /\ requests = {} /\ pending = <<>>

Writes(i) == pending[i].after \in {"refreshed", "adopted"}

\* One session at most is being written by the flight or by the pairing; an update
\* of the origins is written first, of the session there is, and nobody has signed
\* out meanwhile.
Ops ==
    \A i \in DOMAIN pending :
        LET op == pending[i] IN
        /\ op.after = "alternates" =>
              /\ i = 1 /\ op.call = None /\ Held /\ op.value # None
              /\ op.value.device = session.device /\ op.value.token = session.token
              /\ \A j \in DOMAIN pending : j # 1 => pending[j].after = "refreshed"
        /\ op.call # None => \A j \in DOMAIN pending : pending[j].call = op.call => j = i
        /\ Writes(i) => /\ op.value # None
                        /\ \A j \in DOMAIN pending : Writes(j) => j = i
        /\ op.after = "refreshed" =>
              \E f \in flights : f.call = op.call /\ f.stage = "writing" /\ f.next = op.value
        /\ op.after = "adopted" =>
              /\ session = None /\ flights = {} /\ requests = {}
              /\ op.value.token = issued[op.value.device]
        /\ op.after = "signed-out" =>
              /\ op.value = None
              /\ op.call # None => \E f \in flights : f.call = op.call /\ f.stage = "clearing"

LastStored == IF pending = <<>> THEN store ELSE pending[Len(pending)].value

Gone(s) == s \notin {None, Unread} /\ s.device \in closed

\* What the store will hold in the end is what memory will, but for a device
\* that is closed.  (An update that is on its way brings both.)
Agree ==
    session # Unread =>
        /\ \A i \in DOMAIN pending :
              Writes(i) => LastStored = pending[i].value \/ Gone(pending[i].value)
        /\ (\A i \in DOMAIN pending : ~Writes(i)) =>
              LastStored = session \/ Gone(session) \/ Updating

Untroubled == used.losses = 0 /\ used.crashes = 0

\* Without a loss or a crash, the client has the last token issued to it.
Newest ==
    /\ session = Unread => store = None
    /\ Held /\ flights = {} /\ session.device \notin closed =>
          session.token = issued[session.device]
    /\ \A f \in flights :
        f.known.device \notin closed =>
            /\ f.stage \in {"sent", "granted", "writing"}
            /\ f.stage = "sent" => f.known.token = issued[f.known.device]
            /\ f.stage # "sent" => f.next.token = issued[f.known.device]

SessInv ==
    /\ SessionTypeOK /\ Known /\ Rotation /\ OwnCalls
    /\ Settled => (Single /\ Ops /\ Agree)
    /\ (Settled /\ Untroubled) => Newest

---------------------------------------------------------------------------
(* Records and lists. *)

Stages == {"sent", "granted", "refused", "failed", "writing", "clearing"}
Afters == {"refreshed", "alternates", "adopted", "signed-out"}

LEMMA SessionFields ==
  ASSUME NEW s \in StoredSession
  PROVE  s.device \in Devices /\ s.token \in Nat /\ s.token > 0 /\ s \notin {None, Unread}
  BY NullAssumption DEF StoredSession

LEMMA Renewed ==
  ASSUME NEW s \in StoredSession, NEW n \in Nat \ {0}
  PROVE  /\ [s EXCEPT !.token = n] \in StoredSession
         /\ [s EXCEPT !.token = n].device = s.device
         /\ [s EXCEPT !.token = n].token = n
  BY DEF StoredSession

LEMMA FlightFields ==
  ASSUME NEW f \in Flight
  PROVE  /\ f.call \in Calls /\ f.known \in StoredSession /\ f.stage \in Stages
         /\ f.next \in StoredSession \cup {None}
  BY DEF Flight, Stages

LEMMA RequestFields ==
  ASSUME NEW r \in Request
  PROVE  r.call \in Calls /\ r.device \in Devices /\ r.token \in Nat /\ r.token > 0
  BY DEF Request

LEMMA OperationFields ==
  ASSUME NEW op \in Operation
  PROVE  /\ op.value \in StoredSession \cup {None} /\ op.call \in Calls \cup {None}
         /\ op.after \in Afters
  BY DEF Operation, Afters

\* The flight f, further on.
Moved(f, stage, next) == [f EXCEPT !.stage = stage, !.next = next]

LEMMA MovedFields ==
  ASSUME NEW f \in Flight, NEW stage \in Stages, NEW next \in StoredSession \cup {None}
  PROVE  LET g == Moved(f, stage, next)
         IN  g \in Flight /\ g.call = f.call /\ g.known = f.known /\ g.stage = stage /\ g.next = next
  BY DEF Flight, Moved, Stages

\* A flight that has just been sent.
Sent(k) == [call |-> k, known |-> session, stage |-> "sent", next |-> None]

LEMMA SentFields ==
  ASSUME NEW k \in Calls, session \in StoredSession
  PROVE  /\ Sent(k) \in Flight /\ Sent(k).call = k /\ Sent(k).known = session
         /\ Sent(k).stage = "sent" /\ Sent(k).next = None
  BY DEF Flight, Sent

\* The list with one more operation.
Queued(op) ==
    /\ pending' = Append(pending, op)
    /\ Len(pending') = Len(pending) + 1 /\ DOMAIN pending' = 1..(Len(pending) + 1)
    /\ \A i \in DOMAIN pending : pending'[i] = pending[i]
    /\ pending'[Len(pending) + 1] = op

LEMMA QueuedOp ==
  ASSUME SessionTypeOK, NEW value \in StoredSession \cup {None}, NEW call \in Calls \cup {None},
         NEW after \in Afters, pending' = Call(value, call, after)
  PROVE  \E op \in Operation :
            /\ op.value = value /\ op.call = call /\ op.after = after
            /\ Queued(op) /\ pending' \in Seq(Operation)
<1> DEFINE op == [value |-> value, call |-> call, after |-> after]
<1>1. op \in Operation /\ op.value = value /\ op.call = call /\ op.after = after
  BY DEF Operation, Afters
<1>2. pending' = Append(pending, op) /\ pending \in Seq(Operation)
  BY DEF Call, SessionTypeOK
<1> HIDE DEF op
<1>3. Queued(op) /\ pending' \in Seq(Operation)
  BY <1>1, <1>2 DEF Queued
<1> QED
  BY <1>1, <1>3

LEMMA SessTyped ==
  ASSUME SessionTypeOK
  PROVE  /\ \A f \in flights : f \in Flight
         /\ \A r \in requests : r \in Request
         /\ Len(pending) \in Nat /\ DOMAIN pending = 1..Len(pending)
         /\ \A i \in DOMAIN pending : pending[i] \in Operation
         /\ \A d \in Devices : issued[d] \in Nat /\ issued[d] <= MaxTokens /\ accepted[d] \in Nat
         /\ Held <=> session \in StoredSession
         /\ store # None => store \in StoredSession
<1>1. \A i \in 1..Len(pending) : pending[i] \in Operation
  BY DEF SessionTypeOK
<1>2. Held <=> session \in StoredSession
  BY NullAssumption DEF SessionTypeOK, Held
<1> QED
  BY SessionAssumption, <1>1, <1>2 DEF SessionTypeOK

Used == [losses: 0..MaxLost, updates: 0..MaxUpdates, signOuts: 0..MaxSignOuts,
         crashes: 0..MaxCrashes, crossed: BOOLEAN]

LEMMA SpendFields ==
  ASSUME SessionTypeOK
  PROVE  /\ Spend("losses", MaxLost) =>
               used' \in Used /\ used'.losses # 0 /\ used'.crossed = used.crossed
         /\ Spend("crashes", MaxCrashes) =>
               used' \in Used /\ used'.crashes # 0 /\ used'.crossed = used.crossed
<1>1. used \in Used /\ used.losses \in Nat /\ used.crashes \in Nat
  BY DEF SessionTypeOK, Used
<1>2. ASSUME Spend("losses", MaxLost)
      PROVE  used' \in Used /\ used'.losses # 0 /\ used'.crossed = used.crossed
  <2>1. used' = [used EXCEPT !.losses = used.losses + 1] /\ used.losses + 1 \in 0..MaxLost
    <3>1. used.losses < MaxLost /\ used' = [used EXCEPT !["losses"] = used["losses"] + 1]
      BY <1>2 DEF Spend
    <3>2. used.losses + 1 \in 0..MaxLost
      BY SessionAssumption, <1>1, <3>1
    <3> QED
      BY <3>1, <3>2
  <2>2. used' \in Used
    BY <1>1, <2>1 DEF Used
  <2>3. used'.losses = used.losses + 1 /\ used'.crossed = used.crossed
    BY <1>1, <2>1 DEF Used
  <2> QED
    BY <1>1, <2>2, <2>3
<1>3. ASSUME Spend("crashes", MaxCrashes)
      PROVE  used' \in Used /\ used'.crashes # 0 /\ used'.crossed = used.crossed
  <2>1. used' = [used EXCEPT !.crashes = used.crashes + 1] /\ used.crashes + 1 \in 0..MaxCrashes
    <3>1. used.crashes < MaxCrashes /\ used' = [used EXCEPT !["crashes"] = used["crashes"] + 1]
      BY <1>3 DEF Spend
    <3>2. used.crashes + 1 \in 0..MaxCrashes
      BY SessionAssumption, <1>1, <3>1
    <3> QED
      BY <3>1, <3>2
  <2>2. used' \in Used
    BY <1>1, <2>1 DEF Used
  <2>3. used'.crashes = used.crashes + 1 /\ used'.crossed = used.crossed
    BY <1>1, <2>1 DEF Used
  <2> QED
    BY <1>1, <2>2, <2>3
<1> QED
  BY <1>2, <1>3

\* Two changes may have met: the faults are counted as they were.
LEMMA CrossedFields ==
  ASSUME SessionTypeOK, NEW b \in BOOLEAN
  PROVE  /\ Crossed(b) \in Used /\ Crossed(b).crossed = (used.crossed \/ b)
         /\ Crossed(b).losses = used.losses /\ Crossed(b).crashes = used.crashes
         /\ used.signOuts < MaxSignOuts =>
               LET u == [Crossed(b) EXCEPT !.signOuts = @ + 1]
               IN  /\ u \in Used /\ u.crossed = (used.crossed \/ b)
                   /\ u.losses = used.losses /\ u.crashes = used.crashes
         /\ used.updates < MaxUpdates =>
               LET u == [Crossed(b) EXCEPT !.updates = @ + 1]
               IN  /\ u \in Used /\ u.crossed = (used.crossed \/ b)
                   /\ u.losses = used.losses /\ u.crashes = used.crashes
<1>1. used \in Used
  BY DEF SessionTypeOK, Used
<1>2. Crossed(b) \in Used /\ Crossed(b).crossed = (used.crossed \/ b)
  BY <1>1 DEF Crossed, Used
<1>3. /\ Crossed(b).losses = used.losses /\ Crossed(b).crashes = used.crashes
      /\ Crossed(b).signOuts = used.signOuts /\ Crossed(b).updates = used.updates
  BY <1>1 DEF Crossed, Used
<1> DEFINE c == Crossed(b)
<1> HIDE DEF c
<1>4. c \in Used /\ c.signOuts = used.signOuts /\ c.updates = used.updates
  BY <1>2, <1>3 DEF c
<1>5. ASSUME used.signOuts < MaxSignOuts
      PROVE  LET u == [c EXCEPT !.signOuts = @ + 1]
             IN  u \in Used /\ u.crossed = c.crossed /\ u.losses = c.losses /\ u.crashes = c.crashes
  <2>1. c.signOuts + 1 \in 0..MaxSignOuts
    BY <1>1, <1>4, <1>5, SessionAssumption DEF Used
  <2> QED
    BY <1>4, <2>1 DEF Used
<1>6. ASSUME used.updates < MaxUpdates
      PROVE  LET u == [c EXCEPT !.updates = @ + 1]
             IN  u \in Used /\ u.crossed = c.crossed /\ u.losses = c.losses /\ u.crashes = c.crashes
  <2>1. c.updates + 1 \in 0..MaxUpdates
    BY <1>1, <1>4, <1>6, SessionAssumption DEF Used
  <2> QED
    BY <1>4, <2>1 DEF Used
<1> QED
  BY <1>2, <1>3, <1>5, <1>6 DEF c

LEMMA AdvanceFacts ==
  ASSUME SessionTypeOK, OwnCalls, NEW f \in flights,
         NEW stage \in Stages, NEW next \in StoredSession \cup {None}, Advance(f, stage, next)
  PROVE  LET g == Moved(f, stage, next)
         IN  /\ f \in Flight /\ g \in Flight /\ g \in flights'
             /\ g.call = f.call /\ g.known = f.known /\ g.stage = stage /\ g.next = next
             /\ flights' \in SUBSET Flight
             /\ \A h \in flights' : h = g \/ (h \in flights /\ h # f)
             /\ \A h \in flights : h # f => h \in flights'
             /\ \A h, i \in flights' : h.call = i.call => h = i
<1> DEFINE g == Moved(f, stage, next)
<1>1. f \in Flight /\ flights \in SUBSET Flight
  BY DEF SessionTypeOK
<1>2. g \in Flight /\ g.call = f.call /\ g.known = f.known /\ g.stage = stage /\ g.next = next
  BY <1>1, MovedFields
<1>3. flights' = (flights \ {f}) \cup {g}
  BY DEF Advance, Moved
<1> HIDE DEF g
<1>4. \A h, i \in flights' : h.call = i.call => h = i
  BY <1>2, <1>3 DEF OwnCalls
<1> QED
  BY <1>1, <1>2, <1>3, <1>4 DEF g

LEMMA SameHistory ==
  ASSUME UNCHANGED <<issued, used>>
  PROVE  Settled' = Settled /\ Untroubled' = Untroubled
  BY DEF Settled, Untroubled, PairedOnce

---------------------------------------------------------------------------
(* One step of the session at a time. *)

LEMMA ExpireStep ==
  ASSUME SessInv, NEW d \in Devices, NEW t \in 1..MaxTokens, Expire(d, t)
  PROVE  SessInv'
<1>1. /\ t < MaxTokens /\ expired' = expired \cup {<<d, t>>}
      /\ issued' = issued /\ accepted' = accepted /\ closed' = closed /\ session' = session
      /\ gate' = gate /\ flights' = flights /\ requests' = requests /\ store' = store
      /\ pending' = pending /\ used' = used
  BY DEF Expire, manager
<1>2. SessionTypeOK'
  BY <1>1 DEF SessInv, SessionTypeOK
<1>3. Known' /\ OwnCalls'
  BY <1>1 DEF SessInv, Known, OwnCalls, Held
<1>4. Rotation'
  <2>1. \A e \in Devices, u \in 1..MaxTokens : <<e, u>> \in expired' => u < MaxTokens
    BY <1>1 DEF SessInv, Rotation
  <2> QED
    BY <1>1, <2>1 DEF SessInv, Rotation
<1>5. Settled' = Settled /\ Untroubled' = Untroubled
  BY <1>1, SameHistory
<1>6. Settled => (Single /\ Ops /\ Agree)'
  BY <1>1 DEF SessInv, Single, Ops, Agree, Writes, LastStored, Gone, Updating, Held
<1>7. Settled /\ Untroubled => Newest'
  BY <1>1 DEF SessInv, Newest, Held
<1> QED
  BY <1>2, <1>3, <1>4, <1>5, <1>6, <1>7 DEF SessInv

LEMMA CloseStep ==
  ASSUME SessInv, NEW d \in Devices, Close(d)
  PROVE  SessInv'
<1>1. /\ issued[d] > 0 /\ closed' = closed \cup {d} /\ accepted' = [accepted EXCEPT ![d] = 0]
      /\ issued' = issued /\ expired' = expired /\ session' = session
      /\ gate' = gate /\ flights' = flights /\ requests' = requests /\ store' = store
      /\ pending' = pending /\ used' = used
  BY DEF Close, manager
<1>2. SessionTypeOK'
  BY <1>1, SessionAssumption, SMTT(30) DEF SessInv, SessionTypeOK
<1>3. Known' /\ OwnCalls'
  BY <1>1 DEF SessInv, Known, OwnCalls, Held
<1>4. Rotation'
  <2>1. \A e \in Devices : accepted'[e] = IF e \in closed' THEN 0 ELSE issued'[e]
    BY <1>1 DEF SessInv, Rotation, SessionTypeOK
  <2>2. \A e \in closed' : issued'[e] > 0
    BY <1>1 DEF SessInv, Rotation
  <2> QED
    BY <1>1, <2>1, <2>2 DEF SessInv, Rotation
<1>5. Settled' = Settled /\ Untroubled' = Untroubled
  BY <1>1, SameHistory
<1>6. Settled => (Single /\ Ops)'
  BY <1>1 DEF SessInv, Single, Ops, Writes, Held
<1>7. Settled => Agree'
  <2>1. \A s : Gone(s) => Gone(s)'
    BY <1>1 DEF Gone
  <2> QED
    BY <1>1, <2>1 DEF SessInv, Agree, Writes, LastStored, Gone, Updating
<1>8. Settled /\ Untroubled => Newest'
  BY <1>1 DEF SessInv, Newest, Held
<1> QED
  BY <1>2, <1>3, <1>4, <1>5, <1>6, <1>7, <1>8 DEF SessInv

\* What the server or the network makes of a refresh that is in flight.
LEMMA AnswerStep ==
  ASSUME SessInv, NEW f \in flights, RefreshGranted(f) \/ RefreshRefused(f) \/ RefreshLost(f)
  PROVE  SessInv'
<1> DEFINE d == f.known.device
           n == issued[d] + 1
<1> USE DEF SessInv
<1>1. f \in Flight /\ f.known \in StoredSession /\ d \in Devices /\ f.known.token \in Nat /\ f.known.token > 0
  BY SessTyped, FlightFields, SessionFields
<1>2. /\ session' = session /\ gate' = gate /\ requests' = requests /\ store' = store
      /\ pending' = pending /\ closed' = closed /\ expired' = expired
      /\ f.stage \in {"sent", "granted"}
  BY DEF RefreshGranted, RefreshRefused, RefreshLost, remote, Grants
<1>3. CASE RefreshGranted(f)
  <2> DEFINE g == Moved(f, "granted", [f.known EXCEPT !.token = n])
  <2>1. /\ f.stage = "sent" /\ f.known.token = accepted[d]
        /\ issued' = [issued EXCEPT ![d] = n] /\ accepted' = [accepted EXCEPT ![d] = n]
        /\ used' = used
        /\ Advance(f, "granted", [f.known EXCEPT !.token = n])
    BY <1>3 DEF RefreshGranted, Grants
  <2>2. d \notin closed /\ issued[d] = f.known.token
    BY <1>1, <2>1 DEF Rotation
  <2>3. /\ issued[d] \in Nat /\ f.known.token \in 1..MaxTokens /\ f.known.token < MaxTokens
        /\ n \in 1..MaxTokens /\ n \in Nat \ {0}
    <3>1. <<d, f.known.token>> \in Devices \X (1..MaxTokens)
      BY DEF Rotation, SessionTypeOK
    <3>2. f.known.token \in 1..MaxTokens
      BY <3>1
    <3>3. f.known.token < MaxTokens
      BY <1>1, <3>2 DEF Rotation
    <3> QED
      BY SessionAssumption, <2>2, <3>2, <3>3
  <2> DEFINE next == [f.known EXCEPT !.token = n]
  <2>4. next \in StoredSession /\ next.device = d /\ next.token = n
    BY <1>1, <2>3, Renewed
  <2> HIDE DEF next
  <2>5. /\ g \in Flight /\ g \in flights'
        /\ g.call = f.call /\ g.known = f.known /\ g.stage = "granted" /\ g.next = next
        /\ flights' \in SUBSET Flight
        /\ \A h \in flights' : h = g \/ (h \in flights /\ h # f)
        /\ \A h \in flights : h # f => h \in flights'
        /\ \A h, i \in flights' : h.call = i.call => h = i
    BY <2>1, <2>4, AdvanceFacts DEF next, Stages
  <2> HIDE DEF g
  <2>6. /\ issued' \in [Devices -> 0..MaxTokens] /\ accepted' \in [Devices -> 0..MaxTokens]
        /\ issued'[d] = n /\ \A e \in Devices : issued'[e] >= issued[e] /\ (e # d => issued'[e] = issued[e])
        /\ accepted'[d] = n /\ \A e \in Devices : e # d => accepted'[e] = accepted[e]
    BY <1>1, <2>1, <2>3 DEF SessionTypeOK
  <2>7. SessionTypeOK'
    BY <1>2, <2>1, <2>5, <2>6 DEF SessionTypeOK
  <2>8. Known'
    <3>1. \A e \in Devices : issued[e] > 0 => issued'[e] > 0
      BY <2>6 DEF SessionTypeOK
    <3>2. \A h \in flights' : issued'[h.known.device] > 0
      BY <1>1, <2>3, <2>5, <2>6, <3>1, SessTyped, FlightFields, SessionFields DEF Known
    <3>3. Held' => issued'[session'.device] > 0
      BY <1>2, <3>1, SessTyped, SessionFields DEF Known, Held
    <3>4. store' # None => issued'[store'.device] > 0
      BY <1>2, <3>1, SessTyped, SessionFields DEF Known
    <3>5. \A r \in requests' : issued'[r.device] > 0
      BY <1>2, <3>1, SessTyped, RequestFields DEF Known
    <3>6. \A i \in DOMAIN pending' : pending'[i].value # None => issued'[pending'[i].value.device] > 0
      BY <1>2, <3>1, SessTyped, OperationFields, SessionFields DEF Known
    <3> QED
      BY <3>2, <3>3, <3>4, <3>5, <3>6 DEF Known
  <2>9. Rotation'
    <3>1. \A e \in Devices : accepted'[e] = IF e \in closed' THEN 0 ELSE issued'[e]
      BY <1>2, <2>2, <2>6 DEF Rotation
    <3>2. \A e \in closed' : issued'[e] > 0
      BY <1>2, <2>2, <2>6 DEF Rotation, SessionTypeOK
    <3>3. \A h \in flights' :
            /\ <<h.known.device, h.known.token>> \in expired'
            /\ h.stage \in {"granted", "writing"} =>
                  h.next \in StoredSession /\ h.next.device = h.known.device
      BY <1>2, <2>4, <2>5 DEF Rotation
    <3> QED
      BY <1>2, <3>1, <3>2, <3>3 DEF Rotation
  <2>10. OwnCalls'
    BY <1>2, <2>5 DEF OwnCalls
  <2>11. Settled' => Settled /\ Untroubled' = Untroubled
    <3>1. PairedOnce' => PairedOnce
      <4>1. \A e \in Devices : issued[e] > 0 => issued'[e] > 0
        BY <2>6 DEF SessionTypeOK
      <4> QED
        BY <4>1 DEF PairedOnce
    <3> QED
      BY <2>1, <3>1 DEF Settled, Untroubled
  <2>12. Settled => (Single /\ Ops /\ Agree)'
    <3> SUFFICES ASSUME Settled PROVE Single' /\ Ops' /\ Agree'
      OBVIOUS
    <3>1. Single'
      BY <1>2, <2>5 DEF Single, Held
    <3>2. Ops'
      BY <1>2, <2>1, <2>5 DEF Ops, Writes, Held
    <3>3. Agree'
      BY <1>2 DEF Agree, Writes, LastStored, Gone, Updating
    <3> QED
      BY <3>1, <3>2, <3>3
  <2>13. Settled /\ Untroubled => Newest'
    BY <1>2, <2>4, <2>5, <2>6 DEF Single, Newest, Held
  <2> QED
    BY <2>7, <2>8, <2>9, <2>10, <2>11, <2>12, <2>13
<1>4. ASSUME NEW stage \in {"refused", "failed"}, Advance(f, stage, None),
             issued' = issued, accepted' = accepted, used' \in Used,
             Settled' => Settled,
             Settled' /\ Untroubled' => Untroubled /\ f.known.device \in closed
      PROVE  SessInv'
  <2> DEFINE g == Moved(f, stage, None)
  <2>1. /\ g \in Flight /\ g \in flights'
        /\ g.call = f.call /\ g.known = f.known /\ g.stage = stage /\ g.next = None
        /\ flights' \in SUBSET Flight
        /\ \A h \in flights' : h = g \/ (h \in flights /\ h # f)
        /\ \A h \in flights : h # f => h \in flights'
        /\ \A h, i \in flights' : h.call = i.call => h = i
    BY <1>4, AdvanceFacts DEF Stages
  <2> HIDE DEF g
  <2>2. SessionTypeOK'
    BY <1>2, <1>4, <2>1 DEF SessionTypeOK, Used
  <2>3. Known' /\ Rotation' /\ OwnCalls'
    <3>1. Known'
      BY <1>2, <1>4, <2>1 DEF Known, Held
    <3>2. Rotation'
      BY <1>2, <1>4, <2>1 DEF Rotation
    <3>3. OwnCalls'
      BY <1>2, <2>1 DEF OwnCalls
    <3> QED
      BY <3>1, <3>2, <3>3
  <2>4. Settled => (Single /\ Ops /\ Agree)'
    <3> SUFFICES ASSUME Settled PROVE Single' /\ Ops' /\ Agree'
      OBVIOUS
    <3>1. Single'
      BY <1>2, <2>1 DEF Single, Held
    <3>2. Ops'
      BY <1>2, <1>4, <2>1 DEF Ops, Writes, Held
    <3>3. Agree'
      BY <1>2 DEF Agree, Writes, LastStored, Gone, Updating
    <3> QED
      BY <3>1, <3>2, <3>3
  <2>5. Settled' /\ Untroubled' => Newest'
    BY <1>2, <1>4, <2>1 DEF Single, Newest, Held
  <2> QED
    BY <1>4, <2>2, <2>3, <2>4, <2>5
<1>5. CASE RefreshRefused(f)
  <2>1. /\ f.stage = "sent" /\ f.known.token # accepted[d] /\ Advance(f, "refused", None)
        /\ issued' = issued /\ accepted' = accepted /\ used' = used
    BY <1>5 DEF RefreshRefused, remote
  <2>2. Settled' = Settled /\ Untroubled' = Untroubled /\ used' \in Used
    BY <2>1, SameHistory DEF SessionTypeOK, Used
  <2>3. Settled /\ Untroubled => d \in closed
    BY <1>1, <2>1 DEF Newest, Rotation
  <2> QED
    BY <1>4, <2>1, <2>2, <2>3
<1>6. CASE RefreshLost(f)
  <2>1. /\ Advance(f, "failed", None) /\ Spend("losses", MaxLost)
        /\ issued' = issued /\ accepted' = accepted
    BY <1>6 DEF RefreshLost, remote
  <2>2. used' \in Used /\ used'.losses # 0 /\ used'.crossed = used.crossed
    BY <2>1, SpendFields
  <2>3. (Settled' => Settled) /\ ~Untroubled'
    BY <2>1, <2>2 DEF Settled, Untroubled, PairedOnce
  <2> QED
    BY <1>4, <2>1, <2>2, <2>3
<1> QED
  BY <1>3, <1>5, <1>6

LEMMA LoadStep ==
  ASSUME SessInv, Load
  PROVE  SessInv'
<1> USE DEF SessInv
<1>1. /\ session = Unread /\ session' = store
      /\ issued' = issued /\ accepted' = accepted /\ closed' = closed /\ expired' = expired
      /\ gate' = gate /\ flights' = flights /\ requests' = requests /\ store' = store
      /\ pending' = pending /\ used' = used
  BY DEF Load, remote
<1>2. store # Unread
  BY NullAssumption DEF SessionTypeOK
<1>3. SessionTypeOK'
  BY <1>1 DEF SessionTypeOK
<1>4. Known'
  BY <1>1 DEF Known, Held
<1>5. Rotation' /\ OwnCalls'
  BY <1>1 DEF Rotation, OwnCalls
<1>6. Settled' = Settled /\ Untroubled' = Untroubled
  BY <1>1, SameHistory
<1>7. Settled => (Single /\ Ops /\ Agree)'
  <2> SUFFICES ASSUME Settled PROVE Single' /\ Ops' /\ Agree'
    OBVIOUS
  <2>1. flights = {} /\ requests = {} /\ pending = <<>>
    BY <1>1 DEF Single
  <2>2. Single'
    BY <1>1, <1>2, <2>1 DEF Single
  <2>3. DOMAIN pending' = {}
    <3>1. DOMAIN pending = 1..Len(pending) /\ Len(pending) = 0
      BY <2>1, SessTyped, EmptySeq
    <3>2. 1..0 = {}
      OBVIOUS
    <3> QED
      BY <1>1, <3>1, <3>2
  <2> QED
    BY <1>1, <2>1, <2>2, <2>3 DEF Ops, Agree, LastStored
<1>8. Settled /\ Untroubled => Newest'
  BY <1>1, <1>2 DEF Newest, Held, Single
<1> QED
  BY <1>3, <1>4, <1>5, <1>6, <1>7, <1>8

LEMMA SendStep ==
  ASSUME SessInv, NEW k \in Calls, Send(k)
  PROVE  SessInv'
<1> DEFINE r == [call |-> k, device |-> session.device, token |-> session.token]
<1> USE DEF SessInv
<1>1. /\ Held /\ Unused(k) /\ requests' = requests \cup {r}
      /\ session' = session
      /\ issued' = issued /\ accepted' = accepted /\ closed' = closed /\ expired' = expired
      /\ gate' = gate /\ flights' = flights /\ store' = store
      /\ pending' = pending /\ used' = used
  BY DEF Send, remote
<1>2. session \in StoredSession
  BY <1>1, SessTyped
<1>3. r \in Request /\ r.call = k /\ r.device = session.device
  BY <1>2, SessionFields DEF Request
<1> HIDE DEF r
<1>4. SessionTypeOK'
  BY <1>1, <1>3 DEF SessionTypeOK
<1>5. Known'
  BY <1>1, <1>3 DEF Known, Held
<1>6. Rotation'
  BY <1>1 DEF Rotation
<1>7. OwnCalls'
  BY <1>1, <1>3 DEF OwnCalls, Unused
<1>8. Settled' = Settled /\ Untroubled' = Untroubled
  BY <1>1, SameHistory
<1>9. Settled => (Single /\ Ops /\ Agree)'
  <2> SUFFICES ASSUME Settled PROVE Single' /\ Ops' /\ Agree'
    OBVIOUS
  <2>1. session # None /\ session # Unread
    BY <1>1 DEF Held
  <2>2. Single'
    BY <1>1, <2>1 DEF Single, Held
  <2>3. Ops'
    BY <1>1, <2>1 DEF Ops, Writes, Held
  <2>4. Agree'
    BY <1>1 DEF Agree, Writes, LastStored, Gone, Updating
  <2> QED
    BY <2>2, <2>3, <2>4
<1>10. Settled /\ Untroubled => Newest'
  BY <1>1 DEF Newest, Held
<1> QED
  BY <1>4, <1>5, <1>6, <1>7, <1>8, <1>9, <1>10

\* A refresh starts: nothing is in flight, and the token has expired.
LEMMA StartStep ==
  ASSUME SessInv, NEW k \in Calls,
         Held, gate = None, <<session.device, session.token>> \in expired,
         \A f \in flights : f.call # k,
         \A r \in requests' : r.call # k,
         requests' \in SUBSET requests, flights' = flights \cup {Sent(k)}, gate' = k,
         session' = session, issued' = issued, accepted' = accepted, closed' = closed,
         expired' = expired, store' = store, pending' = pending, used' = used
  PROVE  SessInv'
<1> USE DEF SessInv
<1>1. session \in StoredSession /\ session # None /\ session # Unread
  BY SessTyped, SessionFields
<1>2. /\ Sent(k) \in Flight /\ Sent(k).call = k /\ Sent(k).known = session
      /\ Sent(k).stage = "sent" /\ Sent(k).next = None
  BY <1>1, SentFields
<1>3. SessionTypeOK'
  BY <1>2 DEF SessionTypeOK
<1>4. Known'
  BY <1>2 DEF Known, Held
<1>5. Rotation'
  BY <1>2 DEF Rotation
<1>6. OwnCalls'
  BY <1>2 DEF OwnCalls
<1>7. Settled' = Settled /\ Untroubled' = Untroubled
  BY SameHistory
<1>8. Settled => flights = {}
  BY DEF Single
<1>9. Settled => (Single /\ Ops /\ Agree)'
  <2> SUFFICES ASSUME Settled PROVE Single' /\ Ops' /\ Agree'
    OBVIOUS
  <2>1. flights' = {Sent(k)}
    BY <1>8
  <2>2. k # None
    BY NullAssumption
  <2>3. Single'
    BY <1>1, <2>1, <2>2 DEF Single, Held
  <2>4. Ops'
    BY <1>1, <1>8 DEF Ops, Writes, Held
  <2>5. Agree'
    BY DEF Agree, Writes, LastStored, Gone, Updating
  <2> QED
    BY <2>3, <2>4, <2>5
<1>10. Settled /\ Untroubled => Newest'
  BY <1>1, <1>2, <1>8 DEF Newest, Held
<1> QED
  BY <1>3, <1>4, <1>5, <1>6, <1>7, <1>9, <1>10

LEMMA FewerRequests ==
  ASSUME SessInv, requests' \in SUBSET requests, flights' = flights, gate' = gate,
         session' = session, issued' = issued, accepted' = accepted, closed' = closed,
         expired' = expired, store' = store, pending' = pending, used' = used
  PROVE  SessInv'
<1> USE DEF SessInv
<1>1. SessionTypeOK'
  BY DEF SessionTypeOK
<1>2. Known' /\ Rotation' /\ OwnCalls'
  BY DEF Known, Rotation, OwnCalls, Held
<1>3. Settled' = Settled /\ Untroubled' = Untroubled
  BY SameHistory
<1>4. Settled => (Single /\ Ops /\ Agree)'
  BY DEF Single, Ops, Agree, Writes, LastStored, Gone, Updating, Held
<1>5. Settled /\ Untroubled => Newest'
  BY DEF Newest, Held
<1> QED
  BY <1>1, <1>2, <1>3, <1>4, <1>5

LEMMA CrashStep ==
  ASSUME SessInv, Crash
  PROVE  SessInv'
<1> USE DEF SessInv
<1>1. /\ session' = Unread /\ gate' = None /\ flights' = {} /\ requests' = {} /\ pending' = <<>>
      /\ issued' = issued /\ accepted' = accepted /\ closed' = closed /\ expired' = expired
      /\ store' = store /\ Spend("crashes", MaxCrashes)
  BY DEF Crash, remote
<1>2. used' \in Used /\ used'.crashes # 0 /\ used'.crossed = used.crossed
  BY <1>1, SpendFields
<1>3. pending' \in Seq(Operation) /\ DOMAIN pending' = {}
  <2>1. <<>> \in Seq(Operation) /\ Len(<<>>) = 0 /\ 1..0 = {}
    BY EmptySeq
  <2>2. DOMAIN pending' = 1..Len(pending')
    BY <1>1, <2>1, LenProperties
  <2> QED
    BY <1>1, <2>1, <2>2
<1>4. SessionTypeOK'
  BY <1>1, <1>2, <1>3 DEF SessionTypeOK, Used
<1>5. Known'
  BY <1>1, <1>3 DEF Known, Held
<1>6. Rotation' /\ OwnCalls'
  BY <1>1 DEF Rotation, OwnCalls
<1>7. ~Untroubled'
  BY <1>2 DEF Untroubled
<1>8. (Single /\ Ops /\ Agree)'
  BY <1>1, <1>3 DEF Single, Ops, Agree
<1> QED
  BY <1>4, <1>5, <1>6, <1>7, <1>8

\* The user signs out, or the origins are updated.
LEMMA UserStep ==
  ASSUME SessInv, UserSignsOut \/ UpdateAlternates
  PROVE  SessInv'
<1> USE DEF SessInv
<1>1. CASE UserSignsOut
  <2>1. /\ session' = None /\ gate' = None /\ pending' = Call(None, None, "signed-out")
        /\ issued' = issued /\ accepted' = accepted /\ closed' = closed /\ expired' = expired
        /\ flights' = flights /\ requests' = requests /\ store' = store
        /\ used.signOuts < MaxSignOuts
        /\ used' = [Crossed(flights # {} \/ pending # <<>>) EXCEPT !.signOuts = @ + 1]
    BY <1>1 DEF UserSignsOut, SignOut, remote
  <2>2. /\ used' \in Used /\ used'.crossed = (used.crossed \/ flights # {} \/ pending # <<>>)
        /\ used'.losses = used.losses /\ used'.crashes = used.crashes
    BY <2>1, CrossedFields, Zenon
  <2>3. PICK op \in Operation : /\ op.value = None /\ op.call = None /\ op.after = "signed-out"
                                /\ Queued(op) /\ pending' \in Seq(Operation)
    BY <2>1, QueuedOp DEF Afters
  <2>4. SessionTypeOK'
    BY <2>1, <2>2, <2>3 DEF SessionTypeOK, Used
  <2>5. Known'
    <3>1. \A i \in DOMAIN pending' : pending'[i].value # None => issued'[pending'[i].value.device] > 0
      BY <2>1, <2>3, SessTyped DEF Known, Queued
    <3> QED
      BY <2>1, <3>1 DEF Known, Held
  <2>6. Rotation' /\ OwnCalls'
    BY <2>1 DEF Rotation, OwnCalls
  <2>7. Settled' => Settled /\ flights = {} /\ pending = <<>>
    BY <2>1, <2>2 DEF Settled, PairedOnce
  <2>8. None # Unread
    BY NullAssumption
  <2>9. Settled' => (Single /\ Ops /\ Agree)'
    <3> SUFFICES ASSUME Settled' PROVE Single' /\ Ops' /\ Agree'
      OBVIOUS
    <3>1. DOMAIN pending' = {1} /\ pending'[1] = op /\ Len(pending') = 1 /\ pending' # <<>>
      <4>1. Len(pending) = 0
        BY <2>7, EmptySeq
      <4>2. Len(pending') = 0 + 1 /\ DOMAIN pending' = 1..(0 + 1) /\ pending'[0 + 1] = op
        BY <2>3, <4>1 DEF Queued
      <4> QED
        BY <4>2, EmptySeq
    <3>2. Single'
      BY <2>1, <2>7, <2>8 DEF Single, Held
    <3>3. Ops'
      BY <2>3, <3>1 DEF Ops, Writes
    <3>4. Agree'
      BY <2>1, <2>3, <3>1 DEF Agree, Writes, LastStored
    <3> QED
      BY <3>2, <3>3, <3>4
  <2>10. Settled' /\ Untroubled' => Newest'
    BY <2>1, <2>7, <2>8 DEF Newest, Held
  <2> QED
    BY <2>4, <2>5, <2>6, <2>9, <2>10
<1>2. CASE UpdateAlternates
  <2> DEFINE v == [session EXCEPT !.alternates = TRUE]
  <2>1. /\ Held /\ pending' = Call(v, None, "alternates")
        /\ issued' = issued /\ accepted' = accepted /\ closed' = closed /\ expired' = expired
        /\ session' = session /\ gate' = gate
        /\ flights' = flights /\ requests' = requests /\ store' = store
        /\ used.updates < MaxUpdates
        /\ used' = [Crossed(pending # <<>>) EXCEPT !.updates = @ + 1]
    BY <1>2 DEF UpdateAlternates, manager, remote
  <2>2. /\ used' \in Used /\ used'.crossed = (used.crossed \/ pending # <<>>)
        /\ used'.losses = used.losses /\ used'.crashes = used.crashes
    BY <2>1, CrossedFields, Zenon
  <2>3. session \in StoredSession
    BY <2>1, SessTyped
  <2>4. /\ v \in StoredSession /\ v.device = session.device /\ v.token = session.token
        /\ v # None
    <3>1. v \in StoredSession /\ v.device = session.device /\ v.token = session.token
      BY <2>3 DEF StoredSession
    <3> QED
      BY <3>1, SessionFields
  <2> HIDE DEF v
  <2>5. PICK op \in Operation : /\ op.value = v /\ op.call = None /\ op.after = "alternates"
                                /\ Queued(op) /\ pending' \in Seq(Operation)
    BY <2>1, <2>4, QueuedOp DEF Afters
  <2>6. SessionTypeOK'
    BY <2>1, <2>2, <2>5 DEF SessionTypeOK, Used
  <2>7. Known'
    <3>1. issued[v.device] > 0
      BY <2>1, <2>4 DEF Known
    <3>2. \A i \in DOMAIN pending' : pending'[i].value # None => issued'[pending'[i].value.device] > 0
      BY <2>1, <2>5, <3>1, SessTyped DEF Known, Queued
    <3> QED
      BY <2>1, <3>2 DEF Known, Held
  <2>8. Rotation' /\ OwnCalls'
    BY <2>1 DEF Rotation, OwnCalls
  <2>9. (Settled' => Settled /\ pending = <<>>) /\ Untroubled' = Untroubled
    BY <2>1, <2>2 DEF Settled, PairedOnce, Untroubled
  <2>10. Settled' => (Single /\ Ops /\ Agree)'
    <3> SUFFICES ASSUME Settled' PROVE Single' /\ Ops' /\ Agree'
      OBVIOUS
    <3>1. DOMAIN pending' = {1} /\ pending'[1] = op
      <4>1. Len(pending) = 0
        BY <2>9, EmptySeq
      <4>2. DOMAIN pending' = 1..(0 + 1) /\ pending'[0 + 1] = op
        BY <2>5, <4>1 DEF Queued
      <4> QED
        BY <4>2
    <3>2. Single'
      BY <2>1, <2>9 DEF Single, Held
    <3>3. Ops'
      BY <2>1, <2>4, <2>5, <3>1 DEF Ops, Writes, Held
    <3>4. Agree'
      BY <2>5, <3>1 DEF Agree, Writes, Updating
    <3> QED
      BY <3>2, <3>3, <3>4
  <2>11. Settled' /\ Untroubled' => Newest'
    BY <2>1, <2>9 DEF Newest, Held
  <2> QED
    BY <2>6, <2>7, <2>8, <2>10, <2>11
<1> QED
  BY <1>1, <1>2

\* What the manager does with the answer of its refresh.
LEMMA ManageStep ==
  ASSUME SessInv, NEW f \in flights, RefreshAnswered(f)
  PROVE  SessInv'
<1> USE DEF SessInv
<1>1. /\ issued' = issued /\ accepted' = accepted /\ closed' = closed /\ expired' = expired
      /\ requests' = requests /\ store' = store
  BY DEF RefreshAnswered, remote
<1>2. f \in Flight /\ f.call \in Calls /\ f.call # None /\ f.known \in StoredSession
  BY SessTyped, FlightFields, NullAssumption
<1>3. used' = used => Settled' = Settled /\ Untroubled' = Untroubled
  BY <1>1, SameHistory
<1>4. Len(pending) \in Nat /\ DOMAIN pending = 1..Len(pending)
  BY SessTyped
<1>5. Settled /\ f.stage # "writing" /\ f.stage # "clearing" =>
        \A i \in DOMAIN pending :
            \/ pending[i].after = "alternates"
            \/ pending[i].after = "signed-out" /\ pending[i].call = None /\ pending[i].value = None
  <2> SUFFICES ASSUME Settled, f.stage # "writing", f.stage # "clearing", NEW i \in DOMAIN pending,
                      pending[i].after # "alternates"
               PROVE  /\ pending[i].after = "signed-out" /\ pending[i].call = None
                      /\ pending[i].value = None
    OBVIOUS
  <2>1. pending[i].after \in Afters
    BY SessTyped, OperationFields
  <2>2. pending[i].after # "adopted"
    BY DEF Ops
  <2>3. pending[i].after # "refreshed"
    BY DEF Ops, Single
  <2>4. pending[i].after = "signed-out"
    BY <2>1, <2>2, <2>3 DEF Afters
  <2>5. pending[i].value = None
    BY <2>4 DEF Ops
  <2>6. pending[i].call = None
    BY <2>4 DEF Ops, Single
  <2> QED
    BY <2>4, <2>5, <2>6
<1>6. CASE f.stage = "granted"
  <2> DEFINE g == Moved(f, "writing", f.next)
  <2>1. /\ pending' = Call(f.next, f.call, "refreshed") /\ Advance(f, "writing", f.next)
        /\ session' = session /\ gate' = gate /\ used' = used
    BY <1>6 DEF RefreshAnswered
  <2>2. /\ f.next \in StoredSession /\ f.next.device = f.known.device /\ f.next # None
        /\ f.next \in StoredSession \cup {None}
    BY <1>6, SessionFields DEF Rotation
  <2>3. /\ g \in Flight /\ g \in flights'
        /\ g.call = f.call /\ g.known = f.known /\ g.stage = "writing" /\ g.next = f.next
        /\ flights' \in SUBSET Flight
        /\ \A h \in flights' : h = g \/ (h \in flights /\ h # f)
        /\ \A h \in flights : h # f => h \in flights'
        /\ \A h, i \in flights' : h.call = i.call => h = i
    BY <2>1, <2>2, AdvanceFacts DEF Stages
  <2> HIDE DEF g
  <2>4. PICK op \in Operation : /\ op.value = f.next /\ op.call = f.call /\ op.after = "refreshed"
                                /\ Queued(op) /\ pending' \in Seq(Operation)
    BY <1>2, <2>1, <2>2, QueuedOp DEF Afters
  <2>5. /\ Len(pending') = Len(pending) + 1 /\ DOMAIN pending' = 1..(Len(pending) + 1)
        /\ \A i \in DOMAIN pending : pending'[i] = pending[i]
        /\ pending'[Len(pending) + 1] = op
    BY <2>4 DEF Queued
  <2>6. SessionTypeOK'
    BY <1>1, <2>1, <2>3, <2>4 DEF SessionTypeOK
  <2>7. Known'
    <3>1. issued[f.next.device] > 0
      BY <2>2 DEF Known
    <3>2. \A i \in DOMAIN pending' : pending'[i].value # None => issued'[pending'[i].value.device] > 0
      BY <1>1, <1>4, <2>4, <2>5, <3>1 DEF Known
    <3>3. \A h \in flights' : issued'[h.known.device] > 0
      BY <1>1, <2>3 DEF Known
    <3> QED
      BY <1>1, <2>1, <3>2, <3>3 DEF Known, Held
  <2>8. Rotation'
    BY <1>1, <2>2, <2>3 DEF Rotation
  <2>9. OwnCalls'
    BY <1>1, <2>3 DEF OwnCalls
  <2>10. Settled => (Single /\ Ops /\ Agree)'
    <3> SUFFICES ASSUME Settled PROVE Single' /\ Ops' /\ Agree'
      OBVIOUS
    <3>1. \A i \in DOMAIN pending :
              \/ pending[i].after = "alternates"
              \/ pending[i].after = "signed-out" /\ pending[i].call = None /\ pending[i].value = None
      BY <1>5, <1>6
    <3>2. session # Unread
      BY DEF Single
    <3>3. Single'
      BY <1>1, <2>1, <2>3, <3>2 DEF Single, Held
    <3>4. \A i \in DOMAIN pending' :
            \/ i = Len(pending) + 1 /\ pending'[i] = op
            \/ /\ i # Len(pending) + 1 /\ i \in DOMAIN pending /\ pending'[i] = pending[i]
               /\ pending[i].after = "signed-out" /\ pending[i].call = None
               /\ pending[i].value = None
            \/ /\ i # Len(pending) + 1 /\ i \in DOMAIN pending /\ pending'[i] = pending[i]
               /\ pending[i].after = "alternates"
      BY <1>4, <2>5, <3>1
    <3>8. \A i \in DOMAIN pending : pending[i].after = "alternates" =>
            /\ i = 1 /\ pending[i].call = None /\ Held' /\ pending[i].value # None
            /\ pending[i].value.device = session'.device /\ pending[i].value.token = session'.token
            /\ \A j \in DOMAIN pending' : j # 1 => pending'[j].after = "refreshed"
      <4> SUFFICES ASSUME NEW i \in DOMAIN pending, pending[i].after = "alternates"
                   PROVE  /\ i = 1 /\ pending[i].call = None /\ Held' /\ pending[i].value # None
                          /\ pending[i].value.device = session'.device
                          /\ pending[i].value.token = session'.token
                          /\ \A j \in DOMAIN pending' : j # 1 => pending'[j].after = "refreshed"
        OBVIOUS
      <4>1. /\ i = 1 /\ pending[i].call = None /\ Held /\ pending[i].value # None
            /\ pending[i].value.device = session.device /\ pending[i].value.token = session.token
            /\ \A j \in DOMAIN pending : j # 1 => pending[j].after = "refreshed"
        BY DEF Ops
      <4>2. \A j \in DOMAIN pending' : j # 1 => pending'[j].after = "refreshed"
        BY <2>4, <3>4, <4>1
      <4> QED
        BY <2>1, <4>1, <4>2 DEF Held
    <3>9. \A i \in DOMAIN pending' : pending'[i].after = "refreshed" => i = Len(pending) + 1
      BY <3>4
    <3>5. Ops'
      BY <1>2, <2>2, <2>3, <2>4, <3>4, <3>8, <3>9, SMTT(30) DEF Ops, Writes
    <3>6. LastStored' = f.next
      <4>1. pending' # <<>>
        BY <2>1, <2>4, <2>5, <1>4, EmptySeq
      <4> QED
        BY <2>4, <2>5, <4>1 DEF LastStored
    <3>7. Agree'
      BY <2>4, <2>5, <3>4, <3>6, <1>4 DEF Agree, Writes
    <3> QED
      BY <3>3, <3>5, <3>7
  <2>11. Settled /\ Untroubled => Newest'
    <3> SUFFICES ASSUME Settled, Untroubled PROVE Newest'
      OBVIOUS
    <3>1. flights' # {} /\ session' # Unread
      BY <2>1, <2>3 DEF Single
    <3>2. \A h \in flights' : h = g
      BY <2>3 DEF Single
    <3>3. f.known.device \notin closed => f.next.token = issued[f.known.device]
      BY <1>6 DEF Newest
    <3> QED
      BY <1>1, <2>3, <3>1, <3>2, <3>3 DEF Newest
  <2> QED
    BY <1>3, <2>1, <2>6, <2>7, <2>8, <2>9, <2>10, <2>11
<1>7. CASE f.stage = "refused"
  <2> DEFINE g == Moved(f, "clearing", None)
  <2>1. /\ session' = None /\ gate' = None
        /\ pending' = Call(None, f.call, "signed-out") /\ Advance(f, "clearing", None)
        /\ used' = Crossed(Updating)
    BY <1>7 DEF RefreshAnswered
  <2>12. used' \in Used /\ (Settled' => Settled /\ ~Updating) /\ Untroubled' = Untroubled
    <3>1. Updating \in BOOLEAN
      BY DEF Updating
    <3>2. /\ used' \in Used /\ used'.crossed = (used.crossed \/ Updating)
          /\ used'.losses = used.losses /\ used'.crashes = used.crashes
      BY <2>1, <3>1, CrossedFields, Zenon
    <3> QED
      BY <1>1, <3>2 DEF Settled, PairedOnce, Untroubled
  <2>2. /\ g \in Flight /\ g \in flights'
        /\ g.call = f.call /\ g.known = f.known /\ g.stage = "clearing" /\ g.next = None
        /\ flights' \in SUBSET Flight
        /\ \A h \in flights' : h = g \/ (h \in flights /\ h # f)
        /\ \A h \in flights : h # f => h \in flights'
        /\ \A h, i \in flights' : h.call = i.call => h = i
    BY <2>1, AdvanceFacts DEF Stages
  <2> HIDE DEF g
  <2>3. PICK op \in Operation : /\ op.value = None /\ op.call = f.call /\ op.after = "signed-out"
                                /\ Queued(op) /\ pending' \in Seq(Operation)
    BY <1>2, <2>1, QueuedOp DEF Afters
  <2>4. /\ Len(pending') = Len(pending) + 1 /\ DOMAIN pending' = 1..(Len(pending) + 1)
        /\ \A i \in DOMAIN pending : pending'[i] = pending[i]
        /\ pending'[Len(pending) + 1] = op
    BY <2>3 DEF Queued
  <2>5. SessionTypeOK'
    BY <1>1, <2>1, <2>2, <2>3, <2>12 DEF SessionTypeOK, Used
  <2>6. Known'
    <3>1. \A i \in DOMAIN pending' : pending'[i].value # None => issued'[pending'[i].value.device] > 0
      BY <1>1, <1>4, <2>3, <2>4 DEF Known
    <3>2. \A h \in flights' : issued'[h.known.device] > 0
      BY <1>1, <2>2 DEF Known
    <3> QED
      BY <1>1, <2>1, <3>1, <3>2 DEF Known, Held
  <2>7. Rotation'
    BY <1>1, <2>2 DEF Rotation
  <2>8. OwnCalls'
    BY <1>1, <2>2 DEF OwnCalls
  <2>9. None # Unread
    BY NullAssumption
  <2>10. Settled' => (Single /\ Ops /\ Agree)'
    <3> SUFFICES ASSUME Settled' PROVE Single' /\ Ops' /\ Agree'
      OBVIOUS
    <3> Settled /\ ~Updating
      BY <2>12
    <3>1. \A i \in DOMAIN pending : pending[i].after = "signed-out" /\ pending[i].call = None
                                    /\ pending[i].value = None
      BY <1>5, <1>7 DEF Updating
    <3>2. Single'
      BY <2>1, <2>2, <2>9 DEF Single, Held
    <3>3. \A i \in DOMAIN pending' :
            \/ i = Len(pending) + 1 /\ pending'[i] = op
            \/ /\ i # Len(pending) + 1
               /\ pending'[i].after = "signed-out" /\ pending'[i].call = None
               /\ pending'[i].value = None
      BY <1>4, <2>4, <3>1
    <3>4. Ops'
      BY <1>2, <2>2, <2>3, <3>3 DEF Ops, Writes
    <3>5. LastStored' = None
      <4>1. pending' # <<>>
        BY <1>4, <2>4, EmptySeq
      <4> QED
        BY <2>3, <2>4, <4>1 DEF LastStored
    <3>6. \A i \in DOMAIN pending' : ~Writes(i)'
      BY <2>3, <3>3 DEF Writes
    <3>7. Agree'
      BY <2>1, <3>5, <3>6 DEF Agree
    <3> QED
      BY <3>2, <3>4, <3>7
  <2>11. Settled' /\ Untroubled' => Newest'
    <3> SUFFICES ASSUME Settled', Untroubled' PROVE Newest'
      OBVIOUS
    <3> Settled /\ Untroubled
      BY <2>12
    <3>1. \A h \in flights' : h = g
      BY <2>2 DEF Single
    <3>2. f.known.device \in closed
      BY <1>7 DEF Newest
    <3> QED
      BY <1>1, <2>1, <2>2, <2>9, <3>1, <3>2 DEF Newest, Held
  <2> QED
    BY <2>5, <2>6, <2>7, <2>8, <2>10, <2>11
<1>8. CASE f.stage = "failed"
  <2>1. gate' = None /\ flights' = flights \ {f} /\ session' = session /\ pending' = pending
        /\ used' = used
    BY <1>8 DEF RefreshAnswered
  <2>2. SessionTypeOK'
    BY <1>1, <2>1 DEF SessionTypeOK
  <2>3. Known' /\ Rotation' /\ OwnCalls'
    BY <1>1, <2>1 DEF Known, Rotation, OwnCalls, Held
  <2>4. Settled => flights' = {}
    BY <2>1 DEF Single
  <2>5. Settled => (Single /\ Ops /\ Agree)'
    <3> SUFFICES ASSUME Settled PROVE Single' /\ Ops' /\ Agree'
      OBVIOUS
    <3>1. \A i \in DOMAIN pending :
              \/ pending[i].after = "alternates"
              \/ pending[i].after = "signed-out" /\ pending[i].call = None /\ pending[i].value = None
      BY <1>5, <1>8
    <3>2. Single'
      BY <1>1, <2>1, <2>4 DEF Single
    <3>3. Ops'
      BY <2>1, <3>1 DEF Ops, Writes, Held
    <3>4. Agree'
      BY <1>1, <2>1 DEF Agree, Writes, LastStored, Gone, Updating
    <3> QED
      BY <3>2, <3>3, <3>4
  <2>6. Settled /\ Untroubled => Newest'
    <3> SUFFICES ASSUME Settled, Untroubled PROVE Newest'
      OBVIOUS
    <3>1. f.known.device \in closed
      BY <1>8 DEF Newest
    <3>2. Held => session.device = f.known.device
      BY <1>2, SessTyped, SessionFields DEF Settled, PairedOnce, Known
    <3>3. session # Unread
      BY DEF Single
    <3> QED
      BY <1>1, <2>1, <2>4, <3>1, <3>2, <3>3 DEF Newest, Held
  <2> QED
    BY <1>3, <2>1, <2>2, <2>3, <2>5, <2>6
<1> QED
  BY <1>6, <1>7, <1>8 DEF RefreshAnswered

\* The answer to a request: a device that was closed, a token that has expired,
\* or nothing to note.
LEMMA AnsweredStep ==
  ASSUME SessInv, NEW r \in requests, Answered(r)
  PROVE  SessInv'
<1> USE DEF SessInv
<1>1. /\ issued' = issued /\ accepted' = accepted /\ closed' = closed /\ expired' = expired
      /\ requests' = requests \ {r} /\ store' = store
  BY DEF Answered, remote
<1>2. r \in Request /\ r.call \in Calls /\ r.device \in Devices
  BY SessTyped, RequestFields
<1>3. CASE /\ r.device \in closed /\ NoteError(r)
           /\ used' = Crossed(Updating) /\ UNCHANGED flights
  <2>1. /\ session' = None /\ gate' = None /\ flights' = flights
        /\ pending' = Call(None, None, "signed-out")
    BY <1>3 DEF NoteError, SignOut
  <2>11. used' \in Used /\ (Settled' => Settled /\ ~Updating) /\ Untroubled' = Untroubled
    <3>1. Updating \in BOOLEAN
      BY DEF Updating
    <3>2. /\ used' \in Used /\ used'.crossed = (used.crossed \/ Updating)
          /\ used'.losses = used.losses /\ used'.crashes = used.crashes
      BY <1>3, <3>1, CrossedFields, Zenon
    <3> QED
      BY <1>1, <3>2 DEF Settled, PairedOnce, Untroubled
  <2>2. PICK op \in Operation : /\ op.value = None /\ op.call = None /\ op.after = "signed-out"
                                /\ Queued(op) /\ pending' \in Seq(Operation)
    BY <2>1, QueuedOp DEF Afters
  <2>3. /\ Len(pending') = Len(pending) + 1 /\ DOMAIN pending' = 1..(Len(pending) + 1)
        /\ \A i \in DOMAIN pending : pending'[i] = pending[i]
        /\ pending'[Len(pending) + 1] = op
        /\ Len(pending) \in Nat /\ DOMAIN pending = 1..Len(pending)
    BY <2>2, SessTyped DEF Queued
  <2>4. SessionTypeOK'
    BY <1>1, <2>1, <2>2, <2>11 DEF SessionTypeOK, Used
  <2>5. Known'
    <3>1. \A i \in DOMAIN pending' : pending'[i].value # None => issued'[pending'[i].value.device] > 0
      BY <1>1, <2>2, <2>3 DEF Known
    <3> QED
      BY <1>1, <2>1, <3>1 DEF Known, Held
  <2>6. Rotation' /\ OwnCalls'
    BY <1>1, <2>1 DEF Rotation, OwnCalls
  <2>8. None # Unread
    BY NullAssumption
  <2>9. Settled' => (Single /\ Ops /\ Agree)'
    <3> SUFFICES ASSUME Settled' PROVE Single' /\ Ops' /\ Agree'
      OBVIOUS
    <3> Settled /\ ~Updating
      BY <2>11
    <3>1. Single'
      BY <2>1, <2>8 DEF Single, Held
    <3>2. \A i \in DOMAIN pending' : \/ i \in DOMAIN pending /\ pending'[i] = pending[i]
                                     \/ i = Len(pending) + 1 /\ pending'[i] = op
      BY <2>3
    <3>3. \A i \in DOMAIN pending : pending[i].after \notin {"adopted", "alternates"}
      BY DEF Ops, Updating
    <3>4. Ops'
      BY <2>1, <2>2, <3>2, <3>3 DEF Ops, Writes
    <3>5. LastStored' = None /\ session' # Unread
      <4>1. pending' # <<>>
        BY <2>3, EmptySeq
      <4> QED
        BY <2>1, <2>2, <2>3, <2>8, <4>1 DEF LastStored
    <3>6. ASSUME NEW i \in DOMAIN pending', Writes(i)'
          PROVE  Gone(pending[i].value)'
      <4>1. i \in DOMAIN pending /\ pending'[i] = pending[i] /\ pending[i].value # None
        BY <2>2, <3>2, <3>6 DEF Ops, Writes
      <4>2. pending[i].value \in StoredSession
        BY <4>1, SessTyped, OperationFields
      <4>3. /\ pending[i].value.device \in Devices /\ issued[pending[i].value.device] > 0
            /\ issued[r.device] > 0
        BY <4>1, <4>2, SessionFields DEF Known
      <4>4. pending[i].value.device = r.device
        BY <1>2, <4>3 DEF Settled, PairedOnce
      <4>5. pending[i].value \notin {None, Unread}
        BY <4>2, SessionFields
      <4> QED
        BY <1>1, <1>3, <4>1, <4>4, <4>5 DEF Gone
    <3>7. Agree'
      BY <2>1, <3>5, <3>6 DEF Agree, Gone
    <3> QED
      BY <3>1, <3>4, <3>7
  <2>10. Settled' /\ Untroubled' => Newest'
    BY <1>1, <2>1, <2>8, <2>11 DEF Newest, Held
  <2> QED
    BY <2>4, <2>5, <2>6, <2>9, <2>10
<1>4. CASE /\ <<r.device, r.token>> \in expired /\ RefreshAfter(r)
           /\ UNCHANGED <<session, pending, used>>
  <2>1. CASE Held /\ gate = None /\ session.device = r.device /\ session.token = r.token
    <3>1. flights' = flights \cup {Sent(r.call)} /\ gate' = r.call
      BY <1>4, <2>1 DEF RefreshAfter, Sent
    <3>2. (\A f \in flights : f.call # r.call) /\ (\A q \in requests' : q.call # r.call)
      BY <1>1 DEF OwnCalls
    <3>3. requests' \in SUBSET requests
      BY <1>1
    <3> QED
      BY <1>1, <1>2, <1>4, <2>1, <3>1, <3>2, <3>3, StartStep
  <2>2. CASE ~(Held /\ gate = None /\ session.device = r.device /\ session.token = r.token)
    <3>1. flights' = flights /\ gate' = gate
      BY <1>4, <2>2 DEF RefreshAfter
    <3>2. requests' \in SUBSET requests
      BY <1>1
    <3> QED
      BY <1>1, <1>4, <3>1, <3>2, FewerRequests
  <2> QED
    BY <2>1, <2>2
<1>5. CASE UNCHANGED <<session, gate, flights, pending, used>>
  <2>1. requests' \in SUBSET requests
    BY <1>1
  <2> QED
    BY <1>1, <1>5, <2>1, FewerRequests
<1> QED
  BY <1>3, <1>4, <1>5 DEF Answered

\* A pairing: whatever was in flight or called was of no device.
LEMMA AdoptStep ==
  ASSUME SessInv, NEW d \in Devices, Adopt(d)
  PROVE  SessInv'
<1> DEFINE v == [device |-> d, token |-> 1, alternates |-> FALSE]
<1> USE DEF SessInv
<1>1. /\ session = None /\ pending = <<>> /\ issued[d] = 0
      /\ issued' = [issued EXCEPT ![d] = 1] /\ accepted' = [accepted EXCEPT ![d] = 1]
      /\ pending' = Call(v, None, "adopted")
      /\ closed' = closed /\ expired' = expired /\ session' = session /\ gate' = gate
      /\ flights' = flights /\ requests' = requests /\ store' = store /\ used' = used
  BY DEF Adopt, manager
<1>2. v \in StoredSession /\ v.device = d /\ v.token = 1 /\ v # None
  <2>1. v \in StoredSession /\ v.device = d /\ v.token = 1
    BY DEF StoredSession
  <2> QED
    BY <2>1, SessionFields
<1> HIDE DEF v
<1>3. PICK op \in Operation : /\ op.value = v /\ op.call = None /\ op.after = "adopted"
                              /\ Queued(op) /\ pending' \in Seq(Operation)
  BY <1>1, <1>2, QueuedOp DEF Afters
<1>4. Len(pending) = 0 /\ Len(pending') = 1 /\ DOMAIN pending' = {1} /\ pending'[1] = op
  <2>1. Len(pending) = 0
    BY <1>1, EmptySeq
  <2>2. Len(pending') = 0 + 1 /\ DOMAIN pending' = 1..(0 + 1) /\ pending'[0 + 1] = op
    BY <1>3, <2>1 DEF Queued
  <2> QED
    BY <2>1, <2>2
<1>5. /\ issued' \in [Devices -> 0..MaxTokens] /\ accepted' \in [Devices -> 0..MaxTokens]
      /\ issued'[d] = 1 /\ accepted'[d] = 1
      /\ \A e \in Devices : e # d => issued'[e] = issued[e] /\ accepted'[e] = accepted[e]
      /\ \A e \in Devices : issued[e] > 0 => issued'[e] > 0
  <2>1. 1 \in 0..MaxTokens
    BY ScenarioAssumption, SessionAssumption
  <2> QED
    BY <1>1, <2>1 DEF SessionTypeOK
<1>6. SessionTypeOK'
  BY <1>1, <1>3, <1>5 DEF SessionTypeOK
<1>7. Known'
  <2>1. \A h \in flights' : issued'[h.known.device] > 0
    BY <1>1, <1>5, SessTyped, FlightFields, SessionFields DEF Known
  <2>2. \A r \in requests' : issued'[r.device] > 0
    BY <1>1, <1>5, SessTyped, RequestFields DEF Known
  <2>3. store' # None => issued'[store'.device] > 0
    BY <1>1, <1>5, SessTyped, SessionFields DEF Known
  <2>4. ~Held'
    BY <1>1 DEF Held
  <2>5. \A i \in DOMAIN pending' : pending'[i].value # None => issued'[pending'[i].value.device] > 0
    BY <1>2, <1>3, <1>4, <1>5
  <2> QED
    BY <2>1, <2>2, <2>3, <2>4, <2>5 DEF Known
<1>8. Rotation'
  <2>1. d \notin closed
    BY <1>1 DEF Rotation
  <2>2. \A e \in Devices : accepted'[e] = IF e \in closed' THEN 0 ELSE issued'[e]
    BY <1>1, <1>5, <2>1 DEF Rotation
  <2>3. \A e \in closed' : issued'[e] > 0
    BY <1>1, <1>5, <2>1 DEF Rotation, SessionTypeOK
  <2> QED
    BY <1>1, <2>2, <2>3 DEF Rotation
<1>9. OwnCalls'
  BY <1>1 DEF OwnCalls
<1>10. Settled' => Settled
  BY <1>1, <1>5 DEF Settled, PairedOnce
<1>11. Settled' => flights = {} /\ requests = {}
  <2> SUFFICES ASSUME Settled', flights # {} \/ requests # {} PROVE FALSE
    OBVIOUS
  <2>1. \A e \in Devices : issued[e] > 0 => FALSE
    BY <1>1, <1>5 DEF Settled, PairedOnce
  <2>2. \A h \in flights : h.known.device \in Devices
    BY SessTyped, FlightFields, SessionFields
  <2>3. \A r \in requests : r.device \in Devices
    BY SessTyped, RequestFields
  <2> QED
    BY <2>1, <2>2, <2>3 DEF Known
<1>12. Settled' => (Single /\ Ops /\ Agree)'
  <2> SUFFICES ASSUME Settled' PROVE Single' /\ Ops' /\ Agree'
    OBVIOUS
  <2>1. session' = None /\ None # Unread
    BY <1>1, NullAssumption
  <2>2. Single'
    BY <1>1, <1>11, <2>1 DEF Single
  <2>3. Ops'
    BY <1>1, <1>2, <1>3, <1>4, <1>5, <1>11 DEF Ops, Writes
  <2>4. LastStored' = v
    <3>1. pending' # <<>>
      BY <1>4, EmptySeq
    <3> QED
      BY <1>3, <1>4, <3>1 DEF LastStored
  <2>5. Agree'
    BY <1>3, <1>4, <2>4 DEF Agree, Writes
  <2> QED
    BY <2>2, <2>3, <2>5
<1>13. Settled' /\ Untroubled' => Newest'
  BY <1>1, <1>11, NullAssumption DEF Newest, Held
<1> QED
  BY <1>6, <1>7, <1>8, <1>9, <1>12, <1>13

\* The oldest store operation takes effect.
LEMMA StoreStep ==
  ASSUME SessInv, StoreDone
  PROVE  SessInv'
<1> DEFINE op == pending[1]
           left == {f \in flights : f.call # op.call}
<1> USE DEF SessInv
<1>1. /\ issued' = issued /\ accepted' = accepted /\ closed' = closed /\ expired' = expired
      /\ requests' = requests /\ used' = used
      /\ pending # <<>> /\ pending' = Tail(pending) /\ store' = op.value
  BY DEF StoreDone, remote
<1>2. \/ op.after = "refreshed" /\ session' = op.value /\ flights' = left /\ gate' = None
      \/ /\ op.after \in {"alternates", "adopted"}
         /\ session' = op.value /\ flights' = flights /\ gate' = gate
      \/ /\ op.after = "signed-out" /\ session' = session
         /\ flights' = left /\ gate' = IF op.call = None THEN gate ELSE None
  BY DEF StoreDone, Refreshed
<1>3. /\ pending \in Seq(Operation) /\ pending' \in Seq(Operation)
      /\ Len(pending) \in Nat /\ Len(pending) > 0
      /\ Len(pending') = Len(pending) - 1
      /\ DOMAIN pending = 1..Len(pending) /\ DOMAIN pending' = 1..(Len(pending) - 1)
      /\ \A i \in DOMAIN pending' : pending'[i] = pending[i + 1]
  BY <1>1 DEF SessionTypeOK
<1>4. \A i \in DOMAIN pending' : i + 1 \in DOMAIN pending /\ i + 1 # 1 /\ pending'[i] = pending[i + 1]
  BY <1>3
<1>5. 1 \in DOMAIN pending /\ op \in Operation /\ op.value \in StoredSession \cup {None}
      /\ op.call \in Calls \cup {None}
  BY <1>3, SessTyped, OperationFields
<1> HIDE DEF op
<1>6. flights' \in SUBSET flights
  BY <1>2
<1>7. session' = op.value \/ session' = session
  BY <1>2
<1>8. gate' \in Calls \cup {None}
  BY <1>2 DEF SessionTypeOK
<1>9. SessionTypeOK'
  BY <1>1, <1>3, <1>5, <1>6, <1>7, <1>8 DEF SessionTypeOK
<1>10. Known'
  <2>1. op.value # None => issued[op.value.device] > 0
    BY <1>5 DEF Known, op
  <2>2. Held' => issued'[session'.device] > 0
    BY <1>1, <1>7, <2>1 DEF Known, Held
  <2>3. \A i \in DOMAIN pending' : pending'[i].value # None => issued'[pending'[i].value.device] > 0
    BY <1>1, <1>4 DEF Known
  <2> QED
    BY <1>1, <1>6, <2>1, <2>2, <2>3 DEF Known
<1>11. Rotation' /\ OwnCalls'
  BY <1>1, <1>6 DEF Rotation, OwnCalls
<1>12. Settled' = Settled /\ Untroubled' = Untroubled
  BY <1>1, SameHistory
<1>13. LastStored' = LastStored
  <2>1. CASE pending' = <<>>
    <3>1. Len(pending) = 1
      BY <1>3, <2>1, EmptySeq
    <3> QED
      BY <1>1, <2>1, <3>1 DEF LastStored, op
  <2>2. CASE pending' # <<>>
    <3>1. Len(pending') # 0 /\ Len(pending') \in Nat
      BY <1>3, <2>2, EmptySeq
    <3>2. Len(pending') \in DOMAIN pending' /\ Len(pending') + 1 = Len(pending)
      BY <1>3, <3>1
    <3>3. pending'[Len(pending')] = pending[Len(pending)]
      BY <1>4, <3>2
    <3> QED
      BY <1>1, <2>2, <3>3 DEF LastStored
  <2> QED
    BY <2>1, <2>2
\* Settled, the operation is the update of the session there is, or of three.
<1>14. ASSUME Settled
       PROVE  /\ session # Unread
              /\ op.after = "alternates" =>
                    /\ Held /\ op.value \in StoredSession
                    /\ op.value.device = session.device /\ op.value.token = session.token
                    /\ \A j \in DOMAIN pending' : Writes(j)'
              /\ op.after \in {"refreshed", "adopted"} => op.value \in StoredSession
              /\ op.after \in {"refreshed", "adopted"} =>
                    /\ flights' = {}
                    /\ \A i \in DOMAIN pending' : pending'[i].after \notin {"refreshed", "adopted"}
                    /\ LastStored = op.value \/ Gone(op.value)
              /\ op.after = "signed-out" =>
                    /\ op.value = None
                    /\ op.call = None => flights' = flights /\ gate' = gate
                    /\ op.call # None => flights' = {} /\ gate' = None
  <2> USE <1>14
  <2>1. session # Unread
    BY <1>1, <1>5 DEF Single
  <2>4. ASSUME op.after = "alternates"
        PROVE  /\ Held /\ op.value \in StoredSession
               /\ op.value.device = session.device /\ op.value.token = session.token
               /\ \A j \in DOMAIN pending' : Writes(j)'
    <3>1. /\ Held /\ op.value # None
          /\ op.value.device = session.device /\ op.value.token = session.token
          /\ \A j \in DOMAIN pending : j # 1 => pending[j].after = "refreshed"
      BY <1>5, <2>4 DEF Ops, op
    <3>2. \A j \in DOMAIN pending' : pending'[j].after = "refreshed"
      BY <1>4, <3>1
    <3> QED
      BY <1>5, <3>1, <3>2 DEF Writes
  <2>2. ASSUME op.after \in {"refreshed", "adopted"}
        PROVE  /\ flights' = {} /\ op.value \in StoredSession
               /\ \A i \in DOMAIN pending' : pending'[i].after \notin {"refreshed", "adopted"}
               /\ LastStored = op.value \/ Gone(op.value)
    <3>1. op.value # None /\ \A j \in DOMAIN pending : Writes(j) => j = 1
      BY <1>5, <2>2 DEF Ops, Writes, op
    <3>2. flights' = {}
      <4>1. CASE op.after = "refreshed"
        <5>1. PICK f \in flights : f.call = op.call
          BY <1>5, <4>1 DEF Ops, op
        <5> QED
          BY <1>2, <4>1, <5>1 DEF Single
      <4>2. CASE op.after = "adopted"
        BY <1>5, <1>6, <4>2 DEF Ops, op
      <4> QED
        BY <2>2, <4>1, <4>2
    <3>3. \A i \in DOMAIN pending' : pending'[i].after \notin {"refreshed", "adopted"}
      BY <1>4, <3>1 DEF Writes
    <3>4. LastStored = op.value \/ Gone(op.value)
      BY <1>5, <2>1, <2>2 DEF Agree, Writes, op
    <3> QED
      BY <1>5, <3>1, <3>2, <3>3, <3>4
  <2>3. ASSUME op.after = "signed-out"
        PROVE  /\ op.value = None
               /\ op.call = None => flights' = flights /\ gate' = gate
               /\ op.call # None => flights' = {} /\ gate' = None
    <3>1. op.value = None /\ (op.call # None => \E f \in flights : f.call = op.call)
      BY <1>5, <2>3 DEF Ops, op
    <3>2. flights' = left /\ gate' = IF op.call = None THEN gate ELSE None
      BY <1>2, <2>3
    <3>3. \A f \in flights : f.call # None
      BY SessTyped, FlightFields, NullAssumption
    <3>4. op.call = None => left = flights
      BY <3>3
    <3>5. op.call # None => left = {}
      BY <3>1 DEF Single
    <3> QED
      BY <3>1, <3>2, <3>4, <3>5
  <2> QED
    BY <2>1, <2>2, <2>3, <2>4
<1>15. Settled => (Single /\ Ops /\ Agree)'
  <2> SUFFICES ASSUME Settled PROVE Single' /\ Ops' /\ Agree'
    OBVIOUS
  <2>1. op.after \in {"refreshed", "adopted", "signed-out", "alternates"}
    BY <1>2
  <2>2. session' # Unread
    BY <1>7, <1>14, <1>5, NullAssumption
  <2>3. Single'
    <3>1. CASE op.after \in {"refreshed", "adopted"}
      BY <1>14, <2>2, <3>1 DEF Single
    <3>2. CASE op.after = "signed-out"
      <4>1. session' = session
        BY <1>2, <3>2
      <4> QED
        BY <1>14, <2>2, <3>2, <4>1 DEF Single, Held
    <3>3. CASE op.after = "alternates"
      <4>1. Held /\ flights' = flights /\ gate' = gate
        BY <1>2, <1>14, <3>3
      <4> QED
        BY <2>2, <4>1 DEF Single, Held
    <3> QED
      BY <2>1, <3>1, <3>2, <3>3
  \* What is left of the list is of nobody, or of what is left in flight.
  <2>4. ASSUME NEW i \in DOMAIN pending'
        PROVE  /\ pending'[i].after # "alternates"
               /\ pending'[i].call # None =>
                    \A j \in DOMAIN pending' : pending'[j].call = pending'[i].call => j = i
               /\ Writes(i)' => /\ pending'[i].value # None
                                /\ \A j \in DOMAIN pending' : Writes(j)' => j = i
    <3>1. pending[i + 1].after # "alternates"
      BY <1>4, <1>5 DEF Ops
    <3>2. pending[i + 1].call # None =>
            \A j \in DOMAIN pending : pending[j].call = pending[i + 1].call => j = i + 1
      BY <1>4 DEF Ops
    <3>3. Writes(i + 1) => /\ pending[i + 1].value # None
                           /\ \A j \in DOMAIN pending : Writes(j) => j = i + 1
      BY <1>4 DEF Ops
    <3>4. \A j \in DOMAIN pending' : j + 1 \in DOMAIN pending /\ pending'[j] = pending[j + 1]
                                     /\ (j + 1 = i + 1 => j = i)
      BY <1>3
    <3>5. \A j \in DOMAIN pending' : Writes(j)' <=> Writes(j + 1)
      BY <3>4 DEF Writes
    <3> QED
      BY <3>1, <3>2, <3>3, <3>4, <3>5
  <2>5. ASSUME NEW i \in DOMAIN pending', pending'[i].after = "refreshed"
        PROVE  \E f \in flights' : /\ f.call = pending'[i].call /\ f.stage = "writing"
                                   /\ f.next = pending'[i].value
    <3>1. op.after = "signed-out" \/ op.after = "alternates"
      BY <1>14, <2>1, <2>5
    <3>2. PICK f \in flights : /\ f.call = pending[i + 1].call /\ f.stage = "writing"
                               /\ f.next = pending[i + 1].value
      BY <1>4, <2>5 DEF Ops
    <3>3. op.call = None
      BY <1>5, <3>1, <3>2 DEF Ops, Single, op
    <3>4. flights' = flights
      BY <1>2, <1>14, <3>1, <3>3
    <3> QED
      BY <1>4, <3>2, <3>4
  <2>6. ASSUME NEW i \in DOMAIN pending', pending'[i].after = "adopted"
        PROVE  /\ session' = None /\ flights' = {} /\ requests' = {}
               /\ pending'[i].value.token = issued'[pending'[i].value.device]
    <3>1. op.after = "signed-out"
      <4>1. op.after # "alternates"
        BY <1>4, <1>5, <2>6 DEF Ops, op
      <4> QED
        BY <1>14, <2>1, <2>6, <4>1
    <3>2. session' = session
      BY <1>2, <3>1
    <3> QED
      BY <1>1, <1>4, <1>6, <2>6, <3>2 DEF Ops
  <2>7. ASSUME NEW i \in DOMAIN pending', pending'[i].after = "signed-out"
        PROVE  /\ pending'[i].value = None
               /\ pending'[i].call # None =>
                     \E f \in flights' : f.call = pending'[i].call /\ f.stage = "clearing"
    <3>1. pending[i + 1].value = None
      BY <1>4, <2>7 DEF Ops
    <3>2. ASSUME pending[i + 1].call # None
          PROVE  \E f \in flights' : f.call = pending[i + 1].call /\ f.stage = "clearing"
      <4>1. PICK f \in flights : f.call = pending[i + 1].call /\ f.stage = "clearing"
        BY <1>4, <2>7, <3>2 DEF Ops
      <4>2. op.after = "signed-out"
        <5>1. op.after # "refreshed"
          BY <1>5, <4>1 DEF Ops, Single, op
        <5>2. op.after # "adopted"
          BY <1>5, <4>1 DEF Ops, op
        <5>3. op.after # "alternates"
          BY <1>4, <1>5, <2>7 DEF Ops, op
        <5> QED
          BY <2>1, <5>1, <5>2, <5>3
      <4>3. op.call = None
        <5> SUFFICES ASSUME op.call # None PROVE FALSE
          OBVIOUS
        <5>1. PICK h \in flights : h.call = op.call
          BY <1>5, <4>2 DEF Ops, op
        <5>2. pending[i + 1].call = op.call
          BY <4>1, <5>1 DEF Single
        <5> QED
          BY <1>4, <1>5, <5>2 DEF Ops, op
      <4> QED
        BY <1>14, <4>1, <4>2, <4>3
    <3> QED
      BY <1>4, <3>1, <3>2
  <2>8. Ops'
    BY <2>4, <2>5, <2>6, <2>7 DEF Ops
  <2>9. Agree'
    <3>1. CASE op.after \in {"refreshed", "adopted"}
      <4>1. session' = op.value /\ \A i \in DOMAIN pending' : ~Writes(i)'
        BY <1>2, <1>14, <3>1 DEF Writes
      <4>2. LastStored' = session' \/ Gone(session')
        BY <1>13, <1>14, <3>1, <4>1
      <4>3. (LastStored = session \/ Gone(session))'
        BY <1>1, <4>2 DEF Gone
      <4> QED
        BY <4>1, <4>3 DEF Agree
    <3>2. CASE op.after = "signed-out"
      <4>1. session' = session /\ ~Writes(1)
        BY <1>2, <3>2 DEF Writes, op
      <4>2. ASSUME NEW i \in DOMAIN pending', Writes(i)'
            PROVE  (LastStored = pending[i].value \/ Gone(pending[i].value))'
        <5>1. Writes(i + 1)
          BY <1>4, <4>2 DEF Writes
        <5>2. LastStored = pending[i + 1].value \/ Gone(pending[i + 1].value)
          BY <1>4, <1>14, <5>1 DEF Agree
        <5> QED
          BY <1>1, <1>4, <1>13, <5>2 DEF Gone
      <4>3. ASSUME \A i \in DOMAIN pending' : ~Writes(i)'
            PROVE  (LastStored = session \/ Gone(session))'
        <5>1. \A i \in DOMAIN pending : ~Writes(i)
          <6> SUFFICES ASSUME NEW i \in DOMAIN pending, i # 1 PROVE ~Writes(i)
            BY <4>1
          <6>1. i - 1 \in DOMAIN pending' /\ pending'[i - 1] = pending[i]
            BY <1>3
          <6> QED
            BY <4>3, <6>1 DEF Writes
        <5>2. LastStored = session \/ Gone(session)
          <6>1. ~Updating
            <7> SUFFICES ASSUME NEW i \in DOMAIN pending, pending[i].after = "alternates" PROVE FALSE
              BY DEF Updating
            <7>1. i = 1
              BY DEF Ops
            <7> QED
              BY <3>2, <7>1 DEF op
          <6> QED
            BY <1>14, <5>1, <6>1 DEF Agree
        <5> QED
          BY <1>1, <1>13, <4>1, <5>2 DEF Gone
      <4> QED
        BY <4>2, <4>3 DEF Agree
    <3>3. CASE op.after = "alternates"
      <4>1. session' = op.value /\ store' = op.value
        BY <1>1, <1>2, <3>3
      <4>2. ASSUME NEW i \in DOMAIN pending', Writes(i)'
            PROVE  (LastStored = pending[i].value \/ Gone(pending[i].value))'
        <5>1. Writes(i + 1)
          BY <1>4, <4>2 DEF Writes
        <5>2. LastStored = pending[i + 1].value \/ Gone(pending[i + 1].value)
          BY <1>4, <1>14, <5>1 DEF Agree
        <5> QED
          BY <1>1, <1>4, <1>13, <5>2 DEF Gone
      <4>3. ASSUME \A i \in DOMAIN pending' : ~Writes(i)'
            PROVE  LastStored' = session'
        <5>1. DOMAIN pending' = {}
          BY <1>14, <3>3, <4>3
        <5>2. Len(pending') = 0
          BY <1>3, <5>1
        <5>3. pending' = <<>>
          BY <1>3, <5>2, EmptySeq
        <5> QED
          BY <4>1, <5>3 DEF LastStored
      <4> QED
        BY <4>2, <4>3 DEF Agree
    <3> QED
      BY <2>1, <3>1, <3>2, <3>3
  <2> QED
    BY <2>3, <2>8, <2>9
<1>16. Settled /\ Untroubled => Newest'
  <2> SUFFICES ASSUME Settled, Untroubled PROVE Newest'
    OBVIOUS
  <2>1. session' # Unread
    BY <1>5, <1>7, <1>14, NullAssumption
  <2>2. \A f \in flights' :
          f.known.device \notin closed' =>
            /\ f.stage \in {"sent", "granted", "writing"}
            /\ f.stage = "sent" => f.known.token = issued'[f.known.device]
            /\ f.stage # "sent" => f.next.token = issued'[f.known.device]
    BY <1>1, <1>6 DEF Newest
  <2>3. ASSUME Held', flights' = {}, session'.device \notin closed'
        PROVE  session'.token = issued'[session'.device]
    <3>1. CASE op.after = "refreshed"
      <4>1. PICK f \in flights : f.call = op.call /\ f.stage = "writing" /\ f.next = op.value
        BY <1>5, <3>1 DEF Ops, op
      <4>2. f.next.device = f.known.device /\ session' = f.next
        BY <1>2, <3>1, <4>1 DEF Rotation
      <4> QED
        BY <1>1, <2>3, <4>1, <4>2 DEF Newest
    <3>2. CASE op.after = "adopted"
      BY <1>1, <1>2, <1>5, <3>2 DEF Ops, op
    <3>3. CASE op.after = "signed-out" /\ op.call = None
      BY <1>1, <1>2, <1>14, <2>3, <3>3 DEF Newest, Held
    <3>4. CASE op.after = "signed-out" /\ op.call # None
      <4>1. PICK f \in flights : f.call = op.call /\ f.stage = "clearing"
        BY <1>5, <3>4 DEF Ops, op
      <4>2. f.known.device \in closed
        BY <4>1 DEF Newest
      <4>3. session' = session /\ Held
        BY <1>2, <2>3, <3>4 DEF Held
      <4>4. session.device = f.known.device
        <5>1. session.device \in Devices /\ issued[session.device] > 0
          BY <4>3, SessTyped, SessionFields DEF Known
        <5>2. f.known.device \in Devices /\ issued[f.known.device] > 0
          BY SessTyped, FlightFields, SessionFields DEF Known
        <5> QED
          BY <5>1, <5>2 DEF Settled, PairedOnce
      <4> QED
        BY <1>1, <2>3, <4>2, <4>3, <4>4
    <3>5. CASE op.after = "alternates"
      <4>1. session' = op.value /\ flights' = flights
        BY <1>2, <3>5
      <4> QED
        BY <1>1, <1>14, <2>3, <3>5, <4>1 DEF Newest
    <3> QED
      BY <1>2, <1>14, <3>1, <3>2, <3>3, <3>4, <3>5
  <2> QED
    BY <2>1, <2>2, <2>3 DEF Newest
<1> QED
  BY <1>9, <1>10, <1>11, <1>12, <1>15, <1>16

LEMMA EnsureStep ==
  ASSUME SessInv, NEW k \in Calls, EnsureFresh(k)
  PROVE  SessInv'
<1>1. /\ Held /\ gate = None /\ <<session.device, session.token>> \in expired /\ Unused(k)
      /\ flights' = flights \cup {Sent(k)} /\ gate' = k
      /\ session' = session /\ issued' = issued /\ accepted' = accepted /\ closed' = closed
      /\ expired' = expired /\ store' = store /\ pending' = pending /\ used' = used
      /\ requests' = requests
  BY DEF EnsureFresh, Refresh, remote, Sent
<1>2. (\A f \in flights : f.call # k) /\ (\A r \in requests' : r.call # k)
  BY <1>1 DEF Unused
<1> QED
  BY <1>1, <1>2, StartStep

LEMMA SessionStep ==
  ASSUME SessInv, [CoreNext]_coreVars
  PROVE  SessInv'
<1>1. SessionNext \/ UNCHANGED sessionVars
  BY DEF CoreNext, Together, Announced, SessionNext, ManagerStep, coreVars
<1>2. CASE UNCHANGED sessionVars
  <2>1. /\ requests' = requests /\ flights' = flights /\ gate' = gate
        /\ session' = session /\ issued' = issued /\ accepted' = accepted /\ closed' = closed
        /\ expired' = expired /\ store' = store /\ pending' = pending /\ used' = used
    BY <1>2 DEF sessionVars, remote, manager
  <2>2. requests' \in SUBSET requests
    BY <2>1
  <2> QED
    BY <2>1, <2>2, FewerRequests
<1>3. CASE RemoteStep
  BY <1>3, ExpireStep, CloseStep, AnswerStep DEF RemoteStep
<1>4. CASE Quietly
  BY <1>4, LoadStep, EnsureStep, ManageStep, UserStep, AdoptStep, SendStep, AnsweredStep
     DEF Quietly
<1>5. CASE StoreDone
  BY <1>5, StoreStep
<1>6. CASE Crash
  BY <1>6, CrashStep
<1> QED
  BY <1>1, <1>2, <1>3, <1>4, <1>5, <1>6 DEF SessionNext, ManagerStep

\* A client starts with nothing, or paired, read and stored.
Fresh ==
    /\ issued = [d \in Devices |-> 0] /\ session = Unread /\ store = None

PairedAs(d) ==
    /\ d \in Devices
    /\ issued = [x \in Devices |-> IF x = d THEN MaxTokens - 1 ELSE 0]
    /\ session = [device |-> d, token |-> MaxTokens - 1, alternates |-> FALSE]
    /\ store = session

LEMMA SessionStart == MCInit => SessInv
<1> SUFFICES ASSUME MCInit PROVE SessInv
  OBVIOUS
<1>1. /\ accepted = issued /\ closed = {} /\ expired = {}
      /\ gate = None /\ flights = {} /\ requests = {} /\ pending = <<>>
  BY DEF MCInit, NoSessionMoves, SessionInit, SessionScenario, Paired
<1>2. Fresh \/ \E d \in Devices : PairedAs(d)
  BY DEF MCInit, NoSessionMoves, SessionInit, SessionScenario, Paired, Fresh, PairedAs
<1>3. used \in Used
  <2>1. \/ used = [losses |-> 0, updates |-> 0, signOuts |-> 0, crashes |-> 0,
                   crossed |-> FALSE]
        \/ used = [losses |-> MaxLost, updates |-> MaxUpdates,
                   signOuts |-> MaxSignOuts, crashes |-> MaxCrashes, crossed |-> FALSE]
    BY DEF MCInit, NoSessionMoves, SessionInit, SessionScenario, Paired
  <2>2. /\ 0 \in 0..MaxLost /\ 0 \in 0..MaxUpdates /\ 0 \in 0..MaxSignOuts /\ 0 \in 0..MaxCrashes
        /\ MaxLost \in 0..MaxLost /\ MaxUpdates \in 0..MaxUpdates
        /\ MaxSignOuts \in 0..MaxSignOuts /\ MaxCrashes \in 0..MaxCrashes
    BY SessionAssumption
  <2> QED
    <3>1. CASE used = [losses |-> 0, updates |-> 0, signOuts |-> 0, crashes |-> 0,
                       crossed |-> FALSE]
      BY <2>2, <3>1, SMTT(30) DEF Used
    <3>2. CASE used = [losses |-> MaxLost, updates |-> MaxUpdates,
                       signOuts |-> MaxSignOuts, crashes |-> MaxCrashes, crossed |-> FALSE]
      BY <2>2, <3>2, SMTT(30) DEF Used
    <3> QED
      BY <2>1, <3>1, <3>2
<1>4. DOMAIN pending = {} /\ pending \in Seq(Operation)
  <2>1. Len(<<>>) = 0 /\ DOMAIN <<>> = 1..Len(<<>>)
    BY EmptySeq, LenProperties
  <2>2. 1..0 = {}
    OBVIOUS
  <2> QED
    BY <1>1, <2>1, <2>2
<1>5. MaxTokens \in Nat /\ MaxTokens - 1 \in Nat \ {0} /\ MaxTokens - 1 \in 0..MaxTokens
  BY SessionAssumption, ScenarioAssumption
<1>6. CASE Fresh
  <2>1. /\ issued = [d \in Devices |-> 0] /\ session = Unread /\ store = None
        /\ ~Held /\ session # None
    BY <1>6, NullAssumption DEF Fresh, Held
  <2>2. issued \in [Devices -> 0..MaxTokens]
    BY <1>5, <2>1
  <2>3. SessionTypeOK
    BY <1>1, <1>3, <1>4, <2>1, <2>2 DEF SessionTypeOK, Used
  <2>4. Known /\ OwnCalls
    BY <1>1, <1>4, <2>1 DEF Known, OwnCalls
  <2>5. Rotation
    BY <1>1, <2>1 DEF Rotation
  <2>6. Single /\ Ops /\ Agree
    BY <1>1, <1>4, <2>1 DEF Single, Ops, Agree
  <2>7. Newest
    BY <1>1, <2>1 DEF Newest
  <2> QED
    BY <2>3, <2>4, <2>5, <2>6, <2>7 DEF SessInv
<1>7. ASSUME NEW d \in Devices, PairedAs(d) PROVE SessInv
  <2>1. /\ session \in StoredSession /\ session.device = d /\ session.token = MaxTokens - 1
        /\ store = session
    BY <1>5, <1>7 DEF PairedAs, StoredSession
  <2>2. Held /\ session \notin {None, Unread}
    BY <2>1, NullAssumption DEF Held
  <2>3. issued \in [Devices -> 0..MaxTokens] /\ issued[d] = MaxTokens - 1 /\ issued[d] > 0
    BY <1>5, <1>7 DEF PairedAs
  <2>4. SessionTypeOK
    BY <1>1, <1>3, <1>4, <2>1, <2>3 DEF SessionTypeOK, Used
  <2>5. Known /\ OwnCalls
    BY <1>1, <1>4, <2>1, <2>3 DEF Known, OwnCalls
  <2>6. Rotation
    BY <1>1 DEF Rotation
  <2>7. Single /\ Ops
    BY <1>1, <1>4, <2>2 DEF Single, Ops
  <2>8. Agree
    BY <1>1, <1>4, <2>1 DEF Agree, LastStored
  <2>9. Newest
    BY <1>1, <2>1, <2>2, <2>3 DEF Newest
  <2> QED
    BY <2>4, <2>5, <2>6, <2>7, <2>8, <2>9 DEF SessInv
<1> QED
  BY <1>2, <1>6, <1>7

LEMMA SessionInvariant == CoreSpec => []SessInv
<1>1. SessInv /\ [CoreNext]_coreVars => SessInv'
  BY SessionStep
<1> QED
  BY <1>1, SessionStart, PTL DEF CoreSpec

\* However many requests meet an expired token together, whatever is lost or
\* killed, and also while the origins are updated (updateAlternates) or the user
\* signs out: one refresh at a time goes to the server (#refresh of session.ts,
\* behind #refreshing), the server never refuses a token because the client has
\* replaced it itself, and when all is done the store holds the session in memory.
\* Except when two changes have met (used.crossed): an update called while a write
\* is on its way, a sign-out while an update is, the user's while a refresh is; or
\* a second pairing.  RefreshIsNeverStale is the claim without the exception.
THEOREM Session == CoreSpec => []SessionHolds
<1>1. SessInv => SessionHolds
  <2> SUFFICES ASSUME SessInv PROVE SessionHolds
    OBVIOUS
  <2>1. SessionTypeOK /\ (Settled => Single /\ Agree) /\ (Settled /\ Untroubled => Newest)
    BY DEF SessInv
  <2>2. OneRefreshInFlight
    <3> SUFFICES ASSUME Settled PROVE Cardinality(flights) <= 1
      BY DEF OneRefreshInFlight
    <3>1. \A f, g \in flights : f = g
      BY <2>1 DEF Single
    <3>2. CASE flights = {}
      BY <3>2, FS_EmptySet
    <3>3. CASE flights # {}
      <4>1. PICK f : flights = {f}
        BY <3>1, <3>3
      <4>2. Cardinality({f}) = 1
        BY FS_Singleton
      <4> QED
        BY <4>1, <4>2
    <3> QED
      BY <3>2, <3>3
  <2>3. NeverSignedOutByOwnRefresh
    <3> SUFFICES ASSUME Settled, used.losses + used.crashes = 0,
                        NEW f \in flights, f.stage = "refused"
                 PROVE  f.known.device \in closed
      BY DEF NeverSignedOutByOwnRefresh
    <3>1. used.losses \in Nat /\ used.crashes \in Nat
      BY <2>1, SessionAssumption DEF SessionTypeOK
    <3>2. Untroubled
      BY <3>1 DEF Untroubled
    <3> QED
      BY <2>1, <3>2 DEF Newest
  <2>4. MemoryIsStored
    <3> SUFFICES ASSUME Settled, pending = <<>>, session # Unread
                 PROVE  store = session \/ (Held /\ session.device \in closed)
      BY DEF MemoryIsStored
    <3>1. DOMAIN pending = {}
      <4>1. Len(<<>>) = 0 /\ DOMAIN <<>> = 1..Len(<<>>)
        BY EmptySeq, LenProperties
      <4>2. 1..0 = {}
        OBVIOUS
      <4> QED
        BY <4>1, <4>2
    <3>2. store = session \/ Gone(session)
      BY <2>1, <3>1 DEF Agree, LastStored, Updating
    <3> QED
      BY <3>2 DEF Gone, Held
  <2> QED
    BY <2>1, <2>2, <2>3, <2>4 DEF SessionHolds
<1> QED
  BY <1>1, SessionInvariant, PTL

=============================================================================

------------------------ MODULE StreamingContractProofs ------------------------
(***************************************************************************)
(* What the contract of the streaming service promises to every client.    *)
(***************************************************************************)
EXTENDS StreamingContract, TLAPS

Event == [name : {"put", "push"}, n : Nat]

TypeInv ==
    /\ data \in Nat /\ refreshed \in Nat /\ pushed \in Nat
    /\ stage \in [Conns -> {"new", "open", "over"}]
    /\ stream \in [Conns -> Seq(Event)]

\* Of p events a stream carries those from some moment on, or those between two moments.
CarriesToEnd(s, p) == \E m \in 0..p : CarriesBetween(s, m, p)
CarriesSome(s, p) == \E m \in 0..p : \E n \in m..p : CarriesBetween(s, m, n)

IInv == TypeInv /\ StreamsHaveNoGaps

LEMMA EventsAre ==
    /\ \A v \in Nat : Put(v) \in Event /\ ~IsPush(Put(v))
    /\ \A k \in Nat : Push(k) \in Event /\ IsPush(Push(k)) /\ Push(k).n = k
  BY DEF Put, Push, IsPush, Event

\* The next event at the end of a stream that has all before it.
LEMMA CarriesNext ==
    ASSUME NEW s \in Seq(Event), NEW m \in Nat, NEW n \in Nat, m <= n, CarriesBetween(s, m, n)
    PROVE  CarriesBetween(Append(s, Push(n + 1)), m, n + 1)
  <1> DEFINE e == Push(n + 1)
             t == Append(s, e)
  <1>1. e \in Event /\ IsPush(e) /\ e.n = n + 1
    BY EventsAre
  <1>2. /\ Len(t) = Len(s) + 1 /\ Len(s) \in Nat /\ t[Len(s) + 1] = e
        /\ \A i \in 1..Len(s) : t[i] = s[i]
        /\ \A i \in 1..Len(t) : i = Len(t) \/ i \in 1..Len(s)
    BY <1>1
  <1>3. ASSUME NEW k \in m+1..n+1
        PROVE  \E i \in 1..Len(t) : t[i] = Push(k)
    <2> HIDE DEF t
    <2>1. CASE k = n + 1
      BY <1>2, <2>1
    <2>2. CASE k \in m+1..n
      <3>1. PICK i \in 1..Len(s) : s[i] = Push(k)
        BY <2>2 DEF CarriesBetween
      <3> QED
        BY <1>2, <3>1
    <2> QED
      BY <2>1, <2>2
  <1>4. \A i \in 1..Len(s) : IsPush(s[i]) => s[i].n \in m+1..n
    BY DEF CarriesBetween
  <1> HIDE DEF t, e
  <1>5. \A i \in 1..Len(t) : IsPush(t[i]) => t[i].n \in m+1..n+1
    BY <1>1, <1>2, <1>4
  <1>6. ASSUME NEW i \in 1..Len(t), NEW j \in 1..Len(t), i < j, IsPush(t[i]), IsPush(t[j])
        PROVE  t[i].n < t[j].n
    <2>1. i \in 1..Len(s) /\ t[i] = s[i] /\ s[i].n \in m+1..n
      BY <1>2, <1>4, <1>6
    <2>2. CASE j = Len(t)
      BY <1>1, <1>2, <2>1, <2>2
    <2>3. CASE j \in 1..Len(s)
      BY <1>2, <1>6, <2>1, <2>3 DEF CarriesBetween
    <2> QED
      BY <1>2, <2>2, <2>3
  <1> QED
    BY <1>3, <1>5, <1>6 DEF CarriesBetween, t, e

\* A put at the end of a stream changes nothing.
LEMMA CarriesPut ==
    ASSUME NEW s \in Seq(Event), NEW m \in Nat, NEW n \in Nat, CarriesBetween(s, m, n),
           NEW v \in Nat
    PROVE  CarriesBetween(Append(s, Put(v)), m, n)
  <1> DEFINE e == Put(v)
             t == Append(s, e)
  <1>1. e \in Event /\ ~IsPush(e)
    BY EventsAre
  <1>2. /\ Len(t) = Len(s) + 1 /\ Len(s) \in Nat /\ t[Len(s) + 1] = e
        /\ \A i \in 1..Len(s) : t[i] = s[i] /\ i \in 1..Len(t)
        /\ \A i \in 1..Len(t) : i = Len(t) \/ i \in 1..Len(s)
    BY <1>1
  <1> HIDE DEF t, e
  <1>3. \A i \in 1..Len(t) : IsPush(t[i]) => i \in 1..Len(s)
    BY <1>1, <1>2
  <1> QED
    BY <1>2, <1>3 DEF CarriesBetween, t, e

\* What a new stream is sent: perhaps a put, and the events that were kept.
LEMMA CarriesKept ==
    ASSUME TypeInv, NEW opening \in Opening
    PROVE  /\ opening \o Kept \in Seq(Event)
           /\ CarriesToEnd(opening \o Kept, pushed)
  <1> DEFINE s == opening \o Kept
             m == IF Started THEN pushed ELSE 0
  <1>1. \/ opening = <<>>
        \/ \E v \in Nat : opening = <<Put(v)>>
    BY DEF Opening, TypeInv
  <1>2. opening \in Seq(Event) /\ Len(opening) \in {0, 1}
        /\ \A i \in 1..Len(opening) : ~IsPush(opening[i])
    <2>1. CASE opening = <<>>
      BY <2>1
    <2>2. ASSUME NEW v \in Nat, opening = <<Put(v)>>
          PROVE  /\ opening \in Seq(Event) /\ Len(opening) = 1
                 /\ \A i \in 1..Len(opening) : ~IsPush(opening[i])
      <3>1. Put(v) \in Event /\ ~IsPush(Put(v))
        BY EventsAre
      <3>2. Len(opening) = 1 /\ opening[1] = Put(v) /\ opening \in Seq(Event)
        BY <2>2, <3>1
      <3>3. \A i \in 1..Len(opening) : opening[i] = Put(v)
        BY <3>2
      <3> QED
        BY <3>1, <3>2, <3>3
    <2> QED
      BY <1>1, <2>1, <2>2
  <1>3. /\ m \in 0..pushed /\ pushed \in m..pushed /\ pushed \in Nat
    BY DEF TypeInv
  <1>4. Kept \in Seq(Event) /\ Len(Kept) = pushed - m
        /\ \A k \in 1..Len(Kept) : Kept[k] = Push(m + k)
    <2>1. CASE Started
      BY <1>3, <2>1 DEF Kept
    <2>2. CASE ~Started
      <3>1. Kept = [k \in 1..pushed |-> Push(k)] /\ m = 0
        BY <2>2 DEF Kept
      <3>2. \A k \in 1..pushed : Push(k) \in Event
        BY <1>3, EventsAre
      <3> HIDE DEF m
      <3> QED
        BY <1>3, <3>1, <3>2
    <2> QED
      BY <2>1, <2>2
  <1> HIDE DEF m
  <1>5. /\ s \in Seq(Event) /\ Len(s) = Len(opening) + Len(Kept)
        /\ \A i \in 1..Len(opening) : s[i] = opening[i]
        /\ \A k \in 1..Len(Kept) : s[Len(opening) + k] = Kept[k]
    BY <1>2, <1>4
  <1> HIDE DEF s
  <1>6. \A k \in 1..Len(Kept) : s[Len(opening) + k] = Push(m + k)
    BY <1>4, <1>5
  <1>7. ASSUME NEW i \in 1..Len(s), IsPush(s[i])
        PROVE  i - Len(opening) \in 1..Len(Kept) /\ s[i].n = m + i - Len(opening)
    <2>1. i \notin 1..Len(opening)
      BY <1>2, <1>5, <1>7
    <2>2. i - Len(opening) \in 1..Len(Kept)
      BY <1>2, <1>3, <1>4, <1>5, <2>1
    <2>3. PICK k \in 1..Len(Kept) : k = i - Len(opening)
      BY <2>2
    <2>4. Len(opening) + k = i /\ m + k \in Nat /\ m + k = m + i - Len(opening)
      BY <1>2, <1>3, <1>4, <1>5, <2>3
    <2>5. s[i] = Push(m + k)
      BY <1>6, <2>4
    <2>6. s[i].n = m + k
      BY <2>4, <2>5, EventsAre
    <2> QED
      BY <2>3, <2>4, <2>6
  <1>8. ASSUME NEW k \in m+1..pushed PROVE \E i \in 1..Len(s) : s[i] = Push(k)
    <2>1. k - m \in 1..Len(Kept)
      BY <1>3, <1>4
    <2>2. PICK j \in 1..Len(Kept) : j = k - m
      BY <2>1
    <2>3. m + j = k /\ Len(opening) + j \in 1..Len(s)
      BY <1>2, <1>3, <1>4, <1>5, <2>2
    <2>4. s[Len(opening) + j] = Push(k)
      BY <1>6, <2>3
    <2> QED
      BY <2>3, <2>4
  <1>9. CarriesBetween(s, m, pushed)
    <2>1. \A i \in 1..Len(s) : IsPush(s[i]) => s[i].n \in m+1..pushed
      BY <1>2, <1>3, <1>4, <1>7
    <2>2. \A i, j \in 1..Len(s) : i < j /\ IsPush(s[i]) /\ IsPush(s[j]) => s[i].n < s[j].n
      BY <1>2, <1>3, <1>4, <1>7
    <2> QED
      BY <1>8, <2>1, <2>2 DEF CarriesBetween
  <1> QED
    BY <1>3, <1>5, <1>9 DEF CarriesToEnd, s

LEMMA NoGapsAre ==
    ASSUME NEW s, NEW p \in Nat, NEW state
    PROVE  (\E m \in 0..p : \E n \in m..p : CarriesBetween(s, m, n) /\ (state = "open" => n = p))
               <=> /\ state = "open" => CarriesToEnd(s, p)
                   /\ state # "open" => CarriesSome(s, p)
  <1>1. CASE state = "open"
    <2>1. \A m \in 0..p : p \in m..p
      OBVIOUS
    <2> QED
      BY <1>1, <2>1 DEF CarriesToEnd
  <1>2. CASE state # "open"
    BY <1>2 DEF CarriesSome
  <1> QED
    BY <1>1, <1>2

\* The property, for one client at a time.
ClientHasNoGaps(c) ==
    /\ stage[c] = "open" => CarriesToEnd(stream[c], pushed)
    /\ stage[c] \notin {"new", "open"} => CarriesSome(stream[c], pushed)

LEMMA NoGapsNow ==
    ASSUME pushed \in Nat
    PROVE  StreamsHaveNoGaps <=> \A c \in Conns : ClientHasNoGaps(c)
  <1>1. ASSUME NEW c \in Conns
        PROVE  (stage[c] # "new" =>
                   \E m \in 0..pushed : \E n \in m..pushed :
                       CarriesBetween(stream[c], m, n) /\ (stage[c] = "open" => n = pushed))
                   <=> ClientHasNoGaps(c)
    <2> DEFINE now == \E m \in 0..pushed : \E n \in m..pushed :
                          CarriesBetween(stream[c], m, n) /\ (stage[c] = "open" => n = pushed)
    <2>1. now <=> /\ stage[c] = "open" => CarriesToEnd(stream[c], pushed)
                  /\ stage[c] # "open" => CarriesSome(stream[c], pushed)
      BY NoGapsAre
    <2> HIDE DEF now
    <2>2. (stage[c] # "new" => now) <=> ClientHasNoGaps(c)
      BY <2>1 DEF ClientHasNoGaps
    <2> QED
      BY <2>2 DEF now
  <1> QED
    BY <1>1, Zenon DEF StreamsHaveNoGaps

LEMMA NoGapsNext ==
    ASSUME pushed' \in Nat
    PROVE  StreamsHaveNoGaps' <=> \A c \in Conns : ClientHasNoGaps(c)'
  <1>1. ASSUME NEW c \in Conns
        PROVE  (stage'[c] # "new" =>
                   \E m \in 0..pushed' : \E n \in m..pushed' :
                       CarriesBetween(stream'[c], m, n) /\ (stage'[c] = "open" => n = pushed'))
                   <=> ClientHasNoGaps(c)'
    <2> DEFINE now == \E m \in 0..pushed' : \E n \in m..pushed' :
                          CarriesBetween(stream'[c], m, n) /\ (stage'[c] = "open" => n = pushed')
    <2>1. now <=> /\ stage'[c] = "open" => CarriesToEnd(stream'[c], pushed')
                  /\ stage'[c] # "open" => CarriesSome(stream'[c], pushed')
      BY NoGapsAre
    <2> HIDE DEF now
    <2>2. (stage'[c] # "new" => now) <=> ClientHasNoGaps(c)'
      BY <2>1 DEF ClientHasNoGaps
    <2> QED
      BY <2>2 DEF now
  <1> QED
    BY <1>1, Zenon DEF StreamsHaveNoGaps

\* What an event, or none, makes of a stream that is open.
LEMMA CarriesMore ==
    ASSUME NEW s \in Seq(Event), NEW p \in Nat
    PROVE  /\ CarriesToEnd(s, p) => CarriesSome(s, p)
           /\ CarriesSome(s, p) => CarriesSome(s, p + 1)
           /\ CarriesToEnd(s, p) => CarriesToEnd(Append(s, Push(p + 1)), p + 1)
           /\ \A v \in Nat : CarriesToEnd(s, p) => CarriesToEnd(Append(s, Put(v)), p)
  <1>1. ASSUME CarriesToEnd(s, p) PROVE CarriesSome(s, p)
    <2>1. PICK m \in 0..p : CarriesBetween(s, m, p)
      BY <1>1 DEF CarriesToEnd
    <2> QED
      BY <2>1 DEF CarriesSome
  <1>2. ASSUME CarriesSome(s, p) PROVE CarriesSome(s, p + 1)
    <2>1. PICK m \in 0..p, n \in 0..p : m <= n /\ CarriesBetween(s, m, n)
      BY <1>2 DEF CarriesSome
    <2>2. m \in 0..p + 1 /\ n \in m..p + 1
      BY <2>1
    <2> QED
      BY <2>1, <2>2 DEF CarriesSome
  <1>3. ASSUME CarriesToEnd(s, p) PROVE CarriesToEnd(Append(s, Push(p + 1)), p + 1)
    <2>1. PICK m \in 0..p : CarriesBetween(s, m, p)
      BY <1>3 DEF CarriesToEnd
    <2>2. CarriesBetween(Append(s, Push(p + 1)), m, p + 1)
      BY <2>1, CarriesNext
    <2> QED
      BY <2>2 DEF CarriesToEnd
  <1>4. ASSUME NEW v \in Nat, CarriesToEnd(s, p) PROVE CarriesToEnd(Append(s, Put(v)), p)
    <2>1. PICK m \in 0..p : CarriesBetween(s, m, p)
      BY <1>4 DEF CarriesToEnd
    <2>2. CarriesBetween(Append(s, Put(v)), m, p)
      BY <2>1, CarriesPut
    <2> QED
      BY <2>2 DEF CarriesToEnd
  <1> QED
    BY <1>1, <1>2, <1>3, <1>4

\* An event that goes to all, the next one or a put.
LEMMA PublishKeeps ==
    ASSUME IInv, NEW e, Publish(e), pushed' \in Nat,
           \/ e = Push(pushed + 1) /\ pushed' = pushed + 1
           \/ (\E v \in Nat : e = Put(v)) /\ pushed' = pushed
    PROVE  /\ stage' \in [Conns -> {"new", "open", "over"}]
           /\ stream' \in [Conns -> Seq(Event)]
           /\ StreamsHaveNoGaps'
  <1>1. PICK slow \in SUBSET Open :
            /\ stage' = [c \in Conns |-> IF c \in slow THEN "over" ELSE stage[c]]
            /\ stream' = [c \in Conns |-> IF c \in Open \ slow THEN Append(stream[c], e)
                                                                ELSE stream[c]]
    BY DEF Publish
  <1>2. e \in Event
    <2>1. pushed + 1 \in Nat
      BY DEF IInv, TypeInv
    <2> QED
      BY <2>1, EventsAre
  <1>3. stage \in [Conns -> {"new", "open", "over"}] /\ stream \in [Conns -> Seq(Event)] /\ pushed \in Nat
    BY DEF IInv, TypeInv
  <1>4. stage' \in [Conns -> {"new", "open", "over"}]
    BY <1>1, <1>3
  <1>5. stream' \in [Conns -> Seq(Event)]
    BY <1>1, <1>2, <1>3
  <1>6. ASSUME NEW c \in Conns
        PROVE  ClientHasNoGaps(c)'
    <2> USE DEF ClientHasNoGaps
    <2>1. /\ stage[c] = "open" => CarriesToEnd(stream[c], pushed)
          /\ stage[c] \notin {"new", "open"} => CarriesSome(stream[c], pushed)
      BY <1>3, NoGapsNow DEF IInv
    <2>2. stream[c] \in Seq(Event)
      BY <1>3
    <2>3. CASE c \in Open \ slow
      <3>1. stage[c] = "open" /\ stage'[c] = "open" /\ stream'[c] = Append(stream[c], e)
        BY <1>1, <2>3 DEF Open
      <3>2. CarriesToEnd(Append(stream[c], e), pushed')
        BY <1>3, <2>1, <2>2, <3>1, CarriesMore
      <3> QED
        BY <3>1, <3>2
    <2>4. CASE c \notin Open \ slow
      <3>1. stream'[c] = stream[c] /\ stage'[c] # "open"
        BY <1>1, <2>4 DEF Open
      <3>2. stage'[c] # "new" => CarriesSome(stream[c], pushed)
        <4>1. CASE c \in slow
          BY <1>3, <2>1, <2>2, <4>1, CarriesMore DEF Open
        <4>2. CASE c \notin slow
          BY <1>1, <1>3, <2>1, <3>1, <4>2
        <4> QED
          BY <4>1, <4>2
      <3>3. CarriesSome(stream[c], pushed) => CarriesSome(stream[c], pushed')
        BY <1>3, <2>2, CarriesMore
      <3> QED
        BY <3>1, <3>2, <3>3
    <2> QED
      BY <2>3, <2>4
  <1>7. StreamsHaveNoGaps'
    BY <1>6, NoGapsNext
  <1> QED
    BY <1>4, <1>5, <1>7

LEMMA NoGapsStep ==
    ASSUME IInv, [Next]_contractVars
    PROVE  IInv'
  <1> USE DEF IInv
  <1>1. CASE SetData
    <2>1. TypeInv'
      BY <1>1 DEF SetData, TypeInv
    <2> QED
      BY <1>1, <2>1 DEF SetData, StreamsHaveNoGaps
  <1>2. CASE Refresh
    <2>1. data \in Nat /\ pushed' = pushed /\ pushed \in Nat /\ data' = data /\ refreshed' = data
      BY <1>2 DEF Refresh, TypeInv
    <2>2. Publish(Put(data))
      BY <1>2 DEF Refresh
    <2> QED
      BY <2>1, <2>2, PublishKeeps DEF TypeInv
  <1>3. CASE PushEvent
    <2>1. /\ pushed \in Nat /\ pushed' = pushed + 1 /\ pushed' \in Nat
          /\ data' = data /\ refreshed' = refreshed /\ data \in Nat /\ refreshed \in Nat
      BY <1>3 DEF PushEvent, TypeInv
    <2>2. CASE Started
      <3>1. Publish(Push(pushed + 1))
        BY <1>3, <2>1, <2>2 DEF PushEvent
      <3> QED
        BY <2>1, <3>1, PublishKeeps DEF TypeInv
    <2>3. CASE ~Started
      <3>1. stage' = stage /\ stream' = stream /\ \A c \in Conns : stage[c] = "new"
        BY <1>3, <2>3 DEF PushEvent, Started
      <3> QED
        BY <2>1, <3>1 DEF TypeInv, StreamsHaveNoGaps
    <2> QED
      BY <2>2, <2>3
  <1>4. ASSUME NEW c \in Conns, Attach(c) PROVE IInv'
    <2>1. PICK opening \in Opening : stream' = [stream EXCEPT ![c] = opening \o Kept]
      BY <1>4 DEF Attach
    <2>2. opening \o Kept \in Seq(Event) /\ CarriesToEnd(opening \o Kept, pushed)
      BY CarriesKept
    <2>3. /\ stage' = [stage EXCEPT ![c] = "open"]
          /\ UNCHANGED <<data, refreshed, pushed>>
      BY <1>4 DEF Attach
    <2>4. TypeInv'
      BY <2>1, <2>2, <2>3 DEF TypeInv
    <2>5. ASSUME NEW d \in Conns
          PROVE  ClientHasNoGaps(d)'
      <3> USE DEF ClientHasNoGaps
      <3>1. CASE d = c
        <4>1. stage'[d] = "open" /\ stream'[d] = opening \o Kept /\ pushed' = pushed
          BY <2>1, <2>3, <3>1 DEF TypeInv
        <4> QED
          BY <2>2, <4>1
      <3>2. CASE d # c
        <4>1. stage'[d] = stage[d] /\ stream'[d] = stream[d] /\ pushed' = pushed
          BY <2>1, <2>3, <3>2 DEF TypeInv
        <4> QED
          BY <4>1, NoGapsNow DEF TypeInv
      <3> QED
        BY <3>1, <3>2
    <2>6. StreamsHaveNoGaps'
      BY <2>4, <2>5, NoGapsNext DEF TypeInv
    <2> QED
      BY <2>4, <2>6
  <1>5. ASSUME NEW c \in Conns, Leave(c) PROVE IInv'
    <2>1. /\ stage[c] = "open" /\ stage' = [stage EXCEPT ![c] = "over"]
          /\ UNCHANGED <<data, refreshed, pushed, stream>>
      BY <1>5 DEF Leave
    <2>2. TypeInv'
      BY <2>1 DEF TypeInv
    <2>3. ASSUME NEW d \in Conns
          PROVE  ClientHasNoGaps(d)'
      <3> USE DEF ClientHasNoGaps
      <3>1. /\ stage[d] = "open" => CarriesToEnd(stream[d], pushed)
            /\ stage[d] \notin {"new", "open"} => CarriesSome(stream[d], pushed)
        BY NoGapsNow DEF TypeInv
      <3>2. stream'[d] = stream[d] /\ pushed' = pushed /\ pushed \in Nat /\ stream[d] \in Seq(Event)
        BY <2>1 DEF TypeInv
      <3>3. CASE d = c
        <4>1. stage'[d] = "over" /\ stage[d] = "open"
          BY <2>1, <3>3 DEF TypeInv
        <4> QED
          BY <3>1, <3>2, <4>1, CarriesMore
      <3>4. CASE d # c
        <4>1. stage'[d] = stage[d]
          BY <2>1, <3>4 DEF TypeInv
        <4> QED
          BY <3>1, <3>2, <4>1
      <3> QED
        BY <3>3, <3>4
    <2>4. StreamsHaveNoGaps'
      BY <2>2, <2>3, NoGapsNext DEF TypeInv
    <2> QED
      BY <2>2, <2>4
  <1>6. CASE UNCHANGED contractVars
    BY <1>6 DEF contractVars, TypeInv, StreamsHaveNoGaps
  <1> QED
    BY <1>1, <1>2, <1>3, <1>4, <1>5, <1>6 DEF Next

\* From the event before which its stream opened every client gets every event, once and
\* in order, for as long as the stream is open.
THEOREM NoGaps == Spec => []StreamsHaveNoGaps
  <1>1. Init => IInv
    BY DEF Init, IInv, TypeInv, StreamsHaveNoGaps
  <1>2. IInv /\ [Next]_contractVars => IInv'
    BY NoGapsStep
  <1>3. IInv => StreamsHaveNoGaps
    BY DEF IInv
  <1> QED
    BY <1>1, <1>2, <1>3, PTL DEF Spec
===============================================================================

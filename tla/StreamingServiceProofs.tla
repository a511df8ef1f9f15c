------------------------ MODULE StreamingServiceProofs ------------------------
(***************************************************************************)
(* Proofs about StreamingService for any set of connections, any number of *)
(* pushes and refreshes, and any capacity of the channels.                 *)
(***************************************************************************)
EXTENDS StreamingService, SequenceTheorems, TLAPS

\* The loop is in Replay for the subscription of c.
Replaying(c) == loop # Idle /\ loop.conn = c

\* The types, with those of the history.
TypeInv ==
    /\ TypeOK
    /\ base \in Seq(Nat)
    /\ audience \in Seq(SUBSET Conns)
    /\ first \in Conns \union {"none"}

\* Events are queued until the first Replay has drained the queue.
QueueInv ==
    /\ started <=> first # "none"
    /\ queuedEvents = IF started THEN <<>> ELSE Pushed

\* While the test waits in Publish it neither replaces the data nor pushes: what it
\* publishes is the current data or the last push.
PublishingInv ==
    publishing # <<>> =>
        \/ initialData > 0 /\ publishing = <<Put(initialData)>>
        \/ started /\ pushes > 0 /\ publishing = <<Push(pushes)>> /\ base[pushes] = refreshed

\* What was refreshed when an event was pushed is no newer than what is now, and
\* that is no newer than the data.
BaseInv ==
    /\ refreshed <= initialData
    /\ \A k \in 1..pushes : base[k] <= refreshed

\* A connection whose Replay has not ended has been sent nothing; until the first
\* Replay ends, that is every connection.
FreshInv ==
    /\ \A c \in Conns : conn[c] \in {"new", "connecting"} \/ Replaying(c) =>
           sent[c] = <<>> /\ unread[c] = 0
    /\ loop # Idle => conn[loop.conn] \in {"subscribed", "leaving"}
    /\ ~started => \A c \in Conns : conn[c] \in {"new", "connecting"} \/ Replaying(c)
    /\ started => conn[first] \notin {"new", "connecting"} /\ ~Replaying(first)

\* The data that Replay has read is at least as new as the last that was refreshed,
\* because nothing is published while the loop is in Replay.
DrainInv ==
    loop.at = "drain" =>
        \/ loop.put = <<>> /\ refreshed = 0
        \/ \E v \in 1..initialData : v >= refreshed /\ loop.put = <<Put(v)>>

\* Nothing is sent that there has not been.
Within(s, p, d) == \A i \in 1..Len(s) : s[i].n <= IF IsPush(s[i]) THEN p ELSE d
SentInv == \A c \in Conns : Within(sent[c], pushes, initialData)

\* RefreshReachesAll, also for a subscription whose handler has noticed that its
\* client has gone, but not the loop.
ReachedInv ==
    \A c \in Subscribed : ~Replaying(c) /\ refreshed > 0 => Reaches(sent[c], refreshed)

\* The inductive invariant behind the properties of the service.
IInv ==
    /\ TypeInv /\ QueueInv /\ PublishingInv /\ BaseInv /\ FreshInv /\ DrainInv /\ SentInv
    /\ ReachedInv /\ PushesFollowTheirData /\ FirstClientSeesEveryPush

-------------------------------------------------------------------------------
(* Events and streams. *)

LEMMA EventsAre ==
    /\ \A v : Put(v).n = v /\ ~IsPush(Put(v))
    /\ \A k : Push(k).n = k /\ IsPush(Push(k))
    /\ \A v \in 1..MaxVersion : Put(v) \in Events
    /\ \A k \in 1..MaxPushes : Push(k) \in Events
    /\ \A e \in Events : e.n \in Nat \ {0}
  BY ConstantsAssumption DEF Put, Push, IsPush, Events

LEMMA ConcatOne ==
    ASSUME NEW s \in Seq(Events), NEW e \in Events
    PROVE  /\ s \o <<e>> \in Seq(Events) /\ Len(s) \in Nat
           /\ Len(s \o <<e>>) = Len(s) + 1
           /\ (s \o <<e>>)[Len(s) + 1] = e
           /\ \A i \in 1..Len(s) : (s \o <<e>>)[i] = s[i]
           /\ \A i \in 1..Len(s) + 1 : i = Len(s) + 1 \/ i \in 1..Len(s)
  OBVIOUS

LEMMA PushedIs ==
    ASSUME pushes \in Nat, pushes <= MaxPushes
    PROVE  /\ Pushed \in Seq(Events) /\ Len(Pushed) = pushes
           /\ \A k \in 1..pushes : Pushed[k] = Push(k)
  <1>1. \A k \in 1..pushes : Push(k) \in Events
    BY EventsAre, ConstantsAssumption
  <1>2. Pushed \in [1..pushes -> Events]
    BY <1>1 DEF Pushed
  <1> QED
    BY <1>2 DEF Pushed

\* A push that is the next one.
LEMMA CarriesPush ==
    ASSUME NEW s \in Seq(Events), NEW n \in Nat, Carries(s, n), n + 1 <= MaxPushes
    PROVE  Carries(s \o <<Push(n + 1)>>, n + 1)
  <1> DEFINE e == Push(n + 1)
             t == s \o <<e>>
  <1>1. e \in Events /\ IsPush(e) /\ e.n = n + 1
    BY EventsAre, ConstantsAssumption
  <1>2. /\ Len(t) = Len(s) + 1 /\ Len(s) \in Nat /\ t[Len(s) + 1] = e
        /\ \A i \in 1..Len(s) : t[i] = s[i]
        /\ \A i \in 1..Len(t) : i = Len(t) \/ i \in 1..Len(s)
    BY <1>1, ConcatOne
  <1>3. \A k \in 1..n + 1 : \E i \in 1..Len(t) : t[i] = Push(k)
    <2> SUFFICES ASSUME NEW k \in 1..n + 1
                 PROVE  \E i \in 1..Len(t) : t[i] = Push(k)
      OBVIOUS
    <2> HIDE DEF t
    <2>1. CASE k = n + 1
      BY <1>2, <2>1
    <2>2. CASE k \in 1..n
      <3>1. PICK i \in 1..Len(s) : s[i] = Push(k)
        BY <2>2 DEF Carries
      <3> QED
        BY <1>2, <3>1
    <2> QED
      BY <2>1, <2>2
  <1>4. \A i \in 1..Len(s) : IsPush(s[i]) => s[i].n \in 1..n
    BY DEF Carries
  <1> HIDE DEF t, e
  <1>5. \A i \in 1..Len(t) : IsPush(t[i]) => t[i].n \in 1..n + 1
    BY <1>1, <1>2, <1>4
  <1>6. \A i, j \in 1..Len(t) : i < j /\ IsPush(t[i]) /\ IsPush(t[j]) => t[i].n < t[j].n
    <2> SUFFICES ASSUME NEW i \in 1..Len(t), NEW j \in 1..Len(t), i < j,
                        IsPush(t[i]), IsPush(t[j])
                 PROVE  t[i].n < t[j].n
      OBVIOUS
    <2>1. i \in 1..Len(s) /\ t[i] = s[i]
      BY <1>2
    <2>2. CASE j = Len(t)
      <3>1. t[j] = e
        BY <1>2, <2>2
      <3> QED
        BY <1>1, <1>4, <2>1, <3>1
    <2>3. CASE j \in 1..Len(s)
      BY <1>2, <2>1, <2>3 DEF Carries
    <2> QED
      BY <1>2, <2>2, <2>3
  <1> QED
    BY <1>3, <1>5, <1>6 DEF Carries, t, e

LEMMA CarriesPut ==
    ASSUME NEW s \in Seq(Events), NEW n \in Nat, Carries(s, n), NEW v \in 1..MaxVersion
    PROVE  Carries(s \o <<Put(v)>>, n)
  <1> DEFINE e == Put(v)
             t == s \o <<e>>
  <1>1. e \in Events /\ ~IsPush(e)
    BY EventsAre
  <1>2. /\ Len(t) = Len(s) + 1 /\ Len(s) \in Nat /\ t[Len(s) + 1] = e
        /\ \A i \in 1..Len(s) : t[i] = s[i]
        /\ \A i \in 1..Len(t) : i = Len(t) \/ i \in 1..Len(s)
        /\ \A i \in 1..Len(s) : i \in 1..Len(t)
    BY <1>1, ConcatOne
  <1> HIDE DEF t, e
  <1>3. \A i \in 1..Len(t) : IsPush(t[i]) => i \in 1..Len(s)
    BY <1>1, <1>2
  <1> QED
    BY <1>2, <1>3 DEF Carries, t, e

\* The stream that the first Replay sends.
LEMMA CarriesQueue ==
    ASSUME pushes \in Nat, pushes <= MaxPushes, NEW v \in 1..MaxVersion
    PROVE  Carries(Pushed, pushes) /\ Carries(<<Put(v)>> \o Pushed, pushes)
  <1>1. /\ Pushed \in Seq(Events) /\ Len(Pushed) = pushes
        /\ \A k \in 1..pushes : Pushed[k] = Push(k)
    BY PushedIs
  <1>2. Carries(Pushed, pushes)
    BY <1>1, EventsAre DEF Carries
  <1> DEFINE e == Put(v)
             t == <<e>> \o Pushed
  <1>3. e \in Events /\ ~IsPush(e)
    BY EventsAre
  <1>4. /\ Len(t) = pushes + 1 /\ t[1] = e
        /\ \A k \in 1..pushes : t[k + 1] = Push(k)
    BY <1>1, <1>3
  <1> HIDE DEF t, e
  <1>5. Carries(t, pushes)
    <2>1. \A i \in 1..Len(t) : i = 1 \/ (i - 1 \in 1..pushes /\ t[i] = Push(i - 1))
      BY <1>4
    <2>2. \A i \in 1..Len(t) : IsPush(t[i]) => i - 1 \in 1..pushes /\ t[i].n = i - 1
      BY <1>3, <1>4, <2>1, EventsAre
    <2>3. \A k \in 1..pushes : k + 1 \in 1..Len(t) /\ t[k + 1] = Push(k)
      BY <1>4
    <2> QED
      BY <2>2, <2>3 DEF Carries
  <1> QED
    BY <1>2, <1>5 DEF t, e

LEMMA ReachesPut ==
    ASSUME NEW s \in Seq(Events), NEW v \in 1..MaxVersion
    PROVE  Reaches(s \o <<Put(v)>>, v)
  <1>1. Put(v) \in Events /\ ~IsPush(Put(v)) /\ Put(v).n = v
    BY EventsAre
  <1> QED
    BY <1>1, ConcatOne DEF Reaches

LEMMA ReachesPush ==
    ASSUME NEW s \in Seq(Events), NEW v \in Nat, Reaches(s, v), NEW k \in 1..MaxPushes
    PROVE  Reaches(s \o <<Push(k)>>, v)
  <1> DEFINE e == Push(k)
             t == s \o <<e>>
  <1>1. e \in Events /\ IsPush(e)
    BY EventsAre
  <1>2. /\ Len(t) = Len(s) + 1 /\ Len(s) \in Nat /\ t[Len(s) + 1] = e
        /\ \A i \in 1..Len(s) : t[i] = s[i]
        /\ \A i \in 1..Len(t) : i = Len(t) \/ i \in 1..Len(s)
    BY <1>1, ConcatOne
  <1> HIDE DEF t, e
  <1>3. PICK i \in 1..Len(s) :
            /\ ~IsPush(s[i]) /\ s[i].n >= v
            /\ \A j \in i+1..Len(s) : ~IsPush(s[j]) => s[j].n >= v
    BY DEF Reaches
  <1>4. i \in 1..Len(t) /\ t[i] = s[i]
    BY <1>2
  <1>5. \A j \in i+1..Len(t) : ~IsPush(t[j]) => j \in i+1..Len(s) /\ t[j] = s[j]
    BY <1>1, <1>2
  <1> QED
    BY <1>3, <1>4, <1>5 DEF Reaches, t, e

LEMMA FollowsPut ==
    ASSUME NEW s \in Seq(Events), NEW b, Follows(s, b), NEW v \in 1..MaxVersion,
           NEW p, Within(s, p, v)
    PROVE  Follows(s \o <<Put(v)>>, b)
  <1> DEFINE e == Put(v)
             t == s \o <<e>>
  <1>1. e \in Events /\ ~IsPush(e) /\ e.n = v
    BY EventsAre
  <1>2. /\ Len(t) = Len(s) + 1 /\ Len(s) \in Nat /\ t[Len(s) + 1] = e
        /\ \A i \in 1..Len(s) : t[i] = s[i]
        /\ \A i \in 1..Len(t) : i = Len(t) \/ i \in 1..Len(s)
    BY <1>1, ConcatOne
  <1> HIDE DEF t, e
  <1> SUFFICES ASSUME NEW i \in 1..Len(t)
               PROVE  IF IsPush(t[i])
                      THEN b[t[i].n] > 0 =>
                               \E j \in 1..i-1 : ~IsPush(t[j]) /\ t[j].n >= b[t[i].n]
                      ELSE \A j \in 1..i-1 : ~IsPush(t[j]) => t[j].n <= t[i].n
    BY DEF Follows, t, e
  <1>3. \A j \in 1..i-1 : j \in 1..Len(s) /\ t[j] = s[j]
    BY <1>2
  <1>4. CASE i = Len(t)
    <2>1. t[i] = e
      BY <1>2, <1>4
    <2>2. \A j \in 1..Len(s) : ~IsPush(s[j]) => s[j].n <= v
      BY DEF Within
    <2> QED
      BY <1>1, <1>3, <2>1, <2>2
  <1>5. CASE i \in 1..Len(s)
    BY <1>2, <1>3, <1>5 DEF Follows
  <1> QED
    BY <1>2, <1>4, <1>5

LEMMA FollowsPush ==
    ASSUME NEW s \in Seq(Events), NEW b, Follows(s, b), NEW k \in 1..MaxPushes,
           b[k] > 0 => Reaches(s, b[k])
    PROVE  Follows(s \o <<Push(k)>>, b)
  <1> DEFINE e == Push(k)
             t == s \o <<e>>
  <1>1. e \in Events /\ IsPush(e) /\ e.n = k
    BY EventsAre
  <1>2. /\ Len(t) = Len(s) + 1 /\ Len(s) \in Nat /\ t[Len(s) + 1] = e
        /\ \A i \in 1..Len(s) : t[i] = s[i]
        /\ \A i \in 1..Len(t) : i = Len(t) \/ i \in 1..Len(s)
    BY <1>1, ConcatOne
  <1> HIDE DEF t, e
  <1> SUFFICES ASSUME NEW i \in 1..Len(t)
               PROVE  IF IsPush(t[i])
                      THEN b[t[i].n] > 0 =>
                               \E j \in 1..i-1 : ~IsPush(t[j]) /\ t[j].n >= b[t[i].n]
                      ELSE \A j \in 1..i-1 : ~IsPush(t[j]) => t[j].n <= t[i].n
    BY DEF Follows, t, e
  <1>3. \A j \in 1..i-1 : j \in 1..Len(s) /\ t[j] = s[j]
    BY <1>2
  <1>4. CASE i = Len(t)
    <2>1. t[i] = e /\ i - 1 = Len(s)
      BY <1>2, <1>4
    <2>2. b[k] > 0 => \E j \in 1..Len(s) : ~IsPush(s[j]) /\ s[j].n >= b[k]
      BY DEF Reaches
    <2> QED
      BY <1>1, <1>3, <2>1, <2>2
  <1>5. CASE i \in 1..Len(s)
    <2>1. t[i] = s[i]
      BY <1>2, <1>5
    <2>2. \A j \in 1..i-1 : j \in 1..Len(s) /\ t[j] = s[j]
      BY <1>3
    <2>3. IF IsPush(s[i])
          THEN b[s[i].n] > 0 => \E j \in 1..i-1 : ~IsPush(s[j]) /\ s[j].n >= b[s[i].n]
          ELSE \A j \in 1..i-1 : ~IsPush(s[j]) => s[j].n <= s[i].n
      BY <1>5, Zenon DEF Follows
    <2> QED
      BY <2>1, <2>2, <2>3
  <1> QED
    BY <1>2, <1>4, <1>5

\* The numbers behind a stream.
LEMMA HistoryIs ==
    ASSUME TypeInv, BaseInv
    PROVE  /\ pushes \in Nat /\ pushes <= MaxPushes /\ base \in Seq(Nat) /\ Len(base) = pushes
           /\ refreshed \in Nat /\ initialData \in Nat /\ refreshed <= initialData
           /\ \A k \in 1..pushes : base[k] \in Nat /\ base[k] <= refreshed
  <1>1. /\ pushes \in 0..MaxPushes /\ initialData \in 0..MaxVersion /\ refreshed \in 0..MaxVersion
        /\ base \in Seq(Nat) /\ Len(base) = pushes
    BY DEF TypeInv, TypeOK
  <1>2. refreshed <= initialData /\ \A k \in 1..pushes : base[k] <= refreshed
    BY DEF BaseInv
  <1>3. \A k \in 1..pushes : base[k] \in Nat
    BY <1>1
  <1>4. MaxPushes \in Nat /\ MaxVersion \in Nat
    BY ConstantsAssumption
  <1> QED
    BY <1>1, <1>2, <1>3, <1>4

\* The stream that a Replay sends: it has read v and queued are pushes of data no
\* newer.
LEMMA ReplayedStream ==
    ASSUME TypeInv, BaseInv, NEW v \in 1..MaxVersion, refreshed <= v
    PROVE  /\ <<Put(v)>> \o Pushed \in Seq(Events)
           /\ Reaches(<<Put(v)>> \o Pushed, refreshed)
           /\ Follows(<<Put(v)>> \o Pushed, base)
           /\ v <= initialData => Within(<<Put(v)>> \o Pushed, pushes, initialData)
  <1> DEFINE t == <<Put(v)>> \o Pushed
  <1>1. pushes \in Nat /\ pushes <= MaxPushes /\ base \in Seq(Nat) /\ Len(base) = pushes
    BY HistoryIs
  <1>2. refreshed \in Nat /\ initialData \in Nat /\ \A k \in 1..pushes : base[k] \in Nat /\ base[k] <= v
    <2>1. \A k \in 1..pushes : base[k] \in Nat /\ base[k] <= refreshed
      BY HistoryIs
    <2> QED
      BY <2>1, HistoryIs
  <1>3. /\ Pushed \in Seq(Events) /\ Len(Pushed) = pushes
        /\ \A k \in 1..pushes : Pushed[k] = Push(k)
    BY <1>1, PushedIs
  <1>4. Put(v) \in Events
    BY EventsAre
  <1>5. /\ t \in Seq(Events) /\ Len(t) = pushes + 1 /\ t[1] = Put(v)
        /\ \A k \in 1..pushes : t[k + 1] = Push(k)
    BY <1>1, <1>3, <1>4
  <1> HIDE DEF t
  <1>6. \A i \in 1..Len(t) : i = 1 \/ (i - 1 \in 1..pushes /\ t[i] = Push(i - 1))
    BY <1>1, <1>5
  <1>7. ~IsPush(t[1]) /\ t[1].n = v
    BY <1>5, EventsAre
  <1>8. \A i \in 1..Len(t) : IsPush(t[i]) <=> i # 1
    BY <1>6, <1>7, EventsAre
  <1>9. \A i \in 1..Len(t) : IsPush(t[i]) => i - 1 \in 1..pushes /\ t[i].n = i - 1
    BY <1>6, <1>8, EventsAre
  <1>10. Reaches(t, refreshed)
    <2>1. 1 \in 1..Len(t)
      BY <1>1, <1>5
    <2>2. \A j \in 1 + 1..Len(t) : IsPush(t[j])
      BY <1>1, <1>5, <1>8
    <2> QED
      BY <1>7, <2>1, <2>2 DEF Reaches
  <1>11. Follows(t, base)
    <2> SUFFICES ASSUME NEW i \in 1..Len(t)
                 PROVE  IF IsPush(t[i])
                        THEN base[t[i].n] > 0 =>
                                 \E j \in 1..i-1 : ~IsPush(t[j]) /\ t[j].n >= base[t[i].n]
                        ELSE \A j \in 1..i-1 : ~IsPush(t[j]) => t[j].n <= t[i].n
      BY DEF Follows
    <2>1. CASE IsPush(t[i])
      <3>1. t[i].n \in 1..pushes /\ 1 \in 1..i-1
        BY <1>8, <1>9, <2>1
      <3>2. base[t[i].n] <= v /\ base[t[i].n] \in Nat
        BY <1>2, <3>1
      <3> QED
        BY <1>7, <2>1, <3>1, <3>2
    <2>2. CASE ~IsPush(t[i])
      BY <1>8, <2>2
    <2> QED
      BY <2>1, <2>2
  <1>12. ASSUME v <= initialData PROVE Within(t, pushes, initialData)
    BY <1>1, <1>6, <1>7, <1>8, <1>9, <1>12 DEF Within
  <1> QED
    BY <1>5, <1>10, <1>11, <1>12 DEF t

\* The same if there was no data, or nothing was queued.
LEMMA ShortStream ==
    ASSUME TypeInv, BaseInv
    PROVE  /\ refreshed = 0 => Follows(Pushed, base)
           /\ Within(Pushed, pushes, initialData)
           /\ Follows(<<>>, base) /\ Within(<<>>, pushes, initialData)
           /\ \A v \in 1..MaxVersion :
                  /\ <<Put(v)>> \in Seq(Events)
                  /\ Follows(<<Put(v)>>, base)
                  /\ v >= refreshed => Reaches(<<Put(v)>>, refreshed)
                  /\ v <= initialData => Within(<<Put(v)>>, pushes, initialData)
  <1>1. pushes \in Nat /\ pushes <= MaxPushes /\ base \in Seq(Nat) /\ Len(base) = pushes
    BY HistoryIs
  <1>2. refreshed \in Nat /\ \A k \in 1..pushes : base[k] \in Nat /\ base[k] <= refreshed
    BY HistoryIs
  <1>3. /\ Pushed \in Seq(Events) /\ Len(Pushed) = pushes
        /\ \A k \in 1..pushes : IsPush(Pushed[k]) /\ Pushed[k].n = k
    BY <1>1, PushedIs, EventsAre
  <1>4. refreshed = 0 => Follows(Pushed, base)
    <2>1. refreshed = 0 => \A k \in 1..pushes : base[k] = 0
      BY <1>2
    <2> QED
      BY <1>3, <2>1 DEF Follows
  <1>5. Within(Pushed, pushes, initialData)
    BY <1>1, <1>3 DEF Within
  <1>6. Follows(<<>>, base) /\ Within(<<>>, pushes, initialData)
    BY DEF Follows, Within
  <1>7. ASSUME NEW v \in 1..MaxVersion
        PROVE  /\ <<Put(v)>> \in Seq(Events)
               /\ Follows(<<Put(v)>>, base)
               /\ v >= refreshed => Reaches(<<Put(v)>>, refreshed)
               /\ v <= initialData => Within(<<Put(v)>>, pushes, initialData)
    <2> DEFINE t == <<Put(v)>>
    <2>1. Put(v) \in Events /\ ~IsPush(Put(v)) /\ Put(v).n = v
      BY EventsAre
    <2>2. t \in Seq(Events) /\ Len(t) = 1 /\ t[1] = Put(v)
      BY <2>1
    <2> HIDE DEF t
    <2> QED
      BY <2>1, <2>2 DEF Follows, Reaches, Within, t
  <1> QED
    BY <1>4, <1>5, <1>6, <1>7

LEMMA FollowsGrow ==
    ASSUME NEW s \in Seq(Events), NEW b \in Seq(Nat), NEW x \in Nat, NEW d,
           Within(s, Len(b), d), Follows(s, b)
    PROVE  Follows(s, Append(b, x))
  <1>1. Len(b) \in Nat /\ \A k \in 1..Len(b) : Append(b, x)[k] = b[k]
    OBVIOUS
  <1>2. \A i \in 1..Len(s) : IsPush(s[i]) => s[i].n \in 1..Len(b)
    BY <1>1, EventsAre DEF Within
  <1>3. \A i \in 1..Len(s) : IsPush(s[i]) => Append(b, x)[s[i].n] = b[s[i].n]
    BY <1>1, <1>2
  <1> QED
    BY <1>3 DEF Follows

LEMMA WithinGrows ==
    ASSUME NEW s \in Seq(Events), NEW p \in Nat, NEW d \in Nat, Within(s, p, d),
           NEW q \in Nat, NEW c \in Nat, p <= q, d <= c
    PROVE  Within(s, q, c)
  <1>1. \A i \in 1..Len(s) : s[i].n \in Nat
    BY EventsAre
  <1> QED
    BY <1>1 DEF Within

LEMMA WithinOne ==
    ASSUME NEW s \in Seq(Events), NEW p \in Nat, NEW d \in Nat, Within(s, p, d),
           NEW e \in Events, e.n <= IF IsPush(e) THEN p ELSE d
    PROVE  Within(s \o <<e>>, p, d)
  <1> DEFINE t == s \o <<e>>
  <1>1. /\ Len(t) = Len(s) + 1 /\ Len(s) \in Nat /\ t[Len(s) + 1] = e
        /\ \A i \in 1..Len(s) : t[i] = s[i]
        /\ \A i \in 1..Len(t) : i = Len(t) \/ i \in 1..Len(s)
    BY ConcatOne
  <1> HIDE DEF t
  <1> QED
    BY <1>1 DEF Within, t

LEMMA NothingAdded ==
    ASSUME NEW s \in Seq(Events)
    PROVE  s \o <<>> = s /\ <<>> \o s = s
  OBVIOUS

-------------------------------------------------------------------------------
(* The steps of the model. *)

Stages == {"new", "connecting", "subscribed", "leaving", "closed", "gone"}

\* What TrySend does to a connection: it gets the events, or it is closed, or it is
\* left alone.
Tried(c, cs, events) ==
    \/ /\ c \in cs /\ unread[c] # BufferSize
       /\ sent'[c] = sent[c] \o events /\ conn'[c] = conn[c]
    \/ /\ c \in cs /\ unread[c] = BufferSize
       /\ sent'[c] = sent[c] /\ conn'[c] = "closed"
    \/ /\ c \notin cs
       /\ sent'[c] = sent[c] /\ conn'[c] = conn[c] /\ unread'[c] = unread[c]

LEMMA TrySendIs ==
    ASSUME TypeInv, NEW cs \in SUBSET Conns, NEW events \in Seq(Events), TrySend(cs, events)
    PROVE  /\ sent' \in [Conns -> Seq(Events)]
           /\ unread' \in [Conns -> 0..BufferSize]
           /\ conn' \in [Conns -> Stages]
           /\ \A c \in Conns : Tried(c, cs, events)
  <1>1. /\ sent \in [Conns -> Seq(Events)] /\ unread \in [Conns -> 0..BufferSize]
        /\ conn \in [Conns -> Stages] /\ BufferSize \in Nat
    BY ConstantsAssumption DEF TypeInv, TypeOK, Stages
  <1>2. \A c \in Conns :
            /\ unread[c] \in 0..BufferSize /\ sent[c] \in Seq(Events) /\ conn[c] \in Stages
            /\ sent[c] \o events \in Seq(Events)
    BY <1>1
  <1> DEFINE full == {c \in cs : unread[c] = BufferSize}
             ok == cs \ full
  <1>3. /\ sent' = [c \in Conns |-> IF c \in ok THEN sent[c] \o events ELSE sent[c]]
        /\ unread' = [c \in Conns |-> IF c \in ok THEN unread[c] + 1 ELSE unread[c]]
        /\ conn' = [c \in Conns |-> IF c \in full THEN "closed" ELSE conn[c]]
    BY DEF TrySend
  <1>4. sent' \in [Conns -> Seq(Events)]
    BY <1>2, <1>3
  <1>5. unread' \in [Conns -> 0..BufferSize]
    BY <1>1, <1>2, <1>3
  <1>6. conn' \in [Conns -> Stages]
    BY <1>2, <1>3 DEF Stages
  <1>7. ASSUME NEW c \in Conns PROVE Tried(c, cs, events)
    BY <1>3 DEF Tried
  <1> QED
    BY <1>4, <1>5, <1>6, <1>7

\* What the loop can be doing.
LEMMA LoopIs ==
    ASSUME TypeInv
    PROVE  /\ Idle.at = "idle"
           /\ \/ loop = Idle
              \/ loop.at = "replay" /\ loop # Idle /\ loop.conn \in Conns
              \/ loop.at = "drain" /\ loop # Idle /\ loop.conn \in Conns /\ loop.put \in Seq(Events)
  BY DEF TypeInv, TypeOK, Idle

LEMMA Initial == Init => IInv
  <1> SUFFICES ASSUME Init PROVE IInv
    OBVIOUS
  <1>1. TypeInv
    <2>1. /\ initialData \in 0..MaxVersion
          /\ pushes \in 0..MaxPushes /\ refreshes \in 0..MaxRefreshes
          /\ refreshed \in 0..MaxVersion
      BY ConstantsAssumption DEF Init
    <2>4. /\ started \in BOOLEAN /\ hungUp \subseteq Conns
          /\ loop = Idle /\ first \in Conns \union {"none"}
      BY DEF Init
    <2>2. /\ conn \in [Conns -> {"new", "connecting", "subscribed", "leaving", "closed", "gone"}]
          /\ sent \in [Conns -> Seq(Events)]
          /\ unread \in [Conns -> 0..BufferSize]
      BY ConstantsAssumption DEF Init
    <2>3. /\ queuedEvents \in Seq(Events) /\ publishing \in Seq(Events) /\ Len(publishing) <= 1
          /\ base \in Seq(Nat) /\ audience \in Seq(SUBSET Conns)
          /\ Len(base) = pushes /\ Len(audience) = pushes
      BY DEF Init
    <2> QED
      BY <2>1, <2>2, <2>3, <2>4 DEF TypeInv, TypeOK
  <1>2. pushes = 0 /\ Pushed = <<>>
    BY DEF Init, Pushed
  <1>3. QueueInv /\ FirstClientSeesEveryPush
    BY <1>2 DEF Init, QueueInv, FirstClientSeesEveryPush
  <1>4. PublishingInv /\ BaseInv /\ DrainInv
    BY DEF Init, PublishingInv, BaseInv, DrainInv, Idle
  <1>5. FreshInv
    BY ConstantsAssumption DEF Init, FreshInv, Replaying
  <1>6. SentInv /\ ReachedInv /\ PushesFollowTheirData
    BY DEF Init, SentInv, Within, ReachedInv, Subscribed, PushesFollowTheirData, Follows
  <1> QED
    BY <1>1, <1>3, <1>4, <1>5, <1>6 DEF IInv

LEMMA SetInitialDataStep == IInv /\ SetInitialData => IInv'
  <1> SUFFICES ASSUME IInv, SetInitialData PROVE IInv'
    OBVIOUS
  <1> USE DEF SetInitialData, serviceVars, connVars, historyVars
  <1>1. /\ publishing = <<>> /\ publishing' = <<>> /\ initialData < MaxVersion
        /\ initialData' = initialData + 1
    OBVIOUS
  <1>2. /\ started' = started /\ queuedEvents' = queuedEvents /\ loop' = loop
        /\ conn' = conn /\ hungUp' = hungUp /\ sent' = sent /\ unread' = unread
        /\ pushes' = pushes /\ refreshes' = refreshes /\ refreshed' = refreshed
        /\ base' = base /\ audience' = audience /\ first' = first
    OBVIOUS
  <1> USE <1>1, <1>2
  <1> USE DEF IInv
  <1>3. initialData \in Nat /\ pushes \in Nat
    BY ConstantsAssumption DEF TypeInv, TypeOK
  <1>4. TypeInv'
    BY ConstantsAssumption DEF TypeInv, TypeOK
  <1>5. QueueInv' /\ FirstClientSeesEveryPush' /\ PushesFollowTheirData'
    BY DEF QueueInv, Pushed, FirstClientSeesEveryPush, PushesFollowTheirData
  <1>6. PublishingInv'
    BY DEF PublishingInv
  <1>7. BaseInv'
    BY ConstantsAssumption DEF BaseInv, TypeInv, TypeOK
  <1>8. FreshInv' /\ ReachedInv'
    BY DEF FreshInv, Replaying, ReachedInv, Subscribed
  <1>9. DrainInv'
    BY <1>3 DEF DrainInv
  <1>10. SentInv'
    BY <1>3, WithinGrows DEF SentInv, TypeInv, TypeOK
  <1> QED
    BY <1>4, <1>5, <1>6, <1>7, <1>8, <1>9, <1>10

LEMMA RefreshAllStep == IInv /\ RefreshAll => IInv'
  <1> SUFFICES ASSUME IInv, RefreshAll PROVE IInv'
    OBVIOUS
  <1> USE DEF RefreshAll, serviceVars, connVars, historyVars
  <1>1. /\ publishing = <<>> /\ publishing' = <<Put(initialData)>> /\ initialData # 0
        /\ refreshes < MaxRefreshes /\ refreshes' = refreshes + 1
    OBVIOUS
  <1>2. /\ started' = started /\ queuedEvents' = queuedEvents /\ loop' = loop
        /\ conn' = conn /\ hungUp' = hungUp /\ sent' = sent /\ unread' = unread
        /\ pushes' = pushes /\ initialData' = initialData /\ refreshed' = refreshed
        /\ base' = base /\ audience' = audience /\ first' = first
    OBVIOUS
  <1> USE DEF IInv
  <1>3. initialData \in 1..MaxVersion /\ pushes \in Nat /\ refreshes \in Nat
    BY <1>1, ConstantsAssumption DEF TypeInv, TypeOK
  <1>4. TypeInv'
    <2>1. publishing' \in Seq(Events) /\ Len(publishing') <= 1
      BY <1>1, <1>3, EventsAre
    <2>2. refreshes' \in 0..MaxRefreshes
      BY <1>1, <1>3, ConstantsAssumption
    <2> QED
      BY <1>2, <2>1, <2>2 DEF TypeInv, TypeOK
  <1>5. QueueInv' /\ BaseInv' /\ DrainInv' /\ SentInv'
    BY <1>2 DEF QueueInv, Pushed, BaseInv, DrainInv, SentInv
  <1>6. PublishingInv'
    BY <1>1, <1>2, <1>3 DEF PublishingInv
  <1>7. FreshInv' /\ ReachedInv' /\ PushesFollowTheirData'
    BY <1>2 DEF FreshInv, Replaying, ReachedInv, Subscribed, PushesFollowTheirData
  <1>8. FirstClientSeesEveryPush'
    <2>1. CASE first = "none"
      BY <1>2, <2>1 DEF QueueInv, FirstClientSeesEveryPush, Pushed
    <2>2. CASE first # "none" /\ conn[first] \in {"closed", "gone"}
      BY <1>2, <2>2 DEF FirstClientSeesEveryPush
    <2>3. CASE first # "none" /\ Carries(sent[first] \o publishing, pushes)
      <3>1. first \in Conns /\ sent[first] \in Seq(Events)
        BY <2>3 DEF TypeInv, TypeOK
      <3>2. Carries(sent[first], pushes)
        BY <1>1, <2>3, <3>1, NothingAdded
      <3>3. Carries(sent[first] \o publishing', pushes)
        BY <1>1, <1>3, <3>1, <3>2, CarriesPut
      <3> QED
        BY <1>2, <2>3, <3>3 DEF FirstClientSeesEveryPush
    <2> QED
      BY <2>1, <2>2, <2>3 DEF FirstClientSeesEveryPush
  <1> QED
    BY <1>4, <1>5, <1>6, <1>7, <1>8

LEMMA PushEventStep == IInv /\ PushEvent => IInv'
  <1> SUFFICES ASSUME IInv, PushEvent PROVE IInv'
    OBVIOUS
  <1> USE DEF PushEvent, connVars
  <1>1. /\ publishing = <<>> /\ pushes < MaxPushes /\ pushes' = pushes + 1
        /\ base' = Append(base, refreshed)
        /\ audience' = Append(audience, {c \in Conns : conn[c] # "new"})
    OBVIOUS
  <1>2. /\ initialData' = initialData /\ started' = started /\ loop' = loop
        /\ conn' = conn /\ hungUp' = hungUp /\ sent' = sent /\ unread' = unread
        /\ refreshes' = refreshes /\ refreshed' = refreshed /\ first' = first
    OBVIOUS
  <1>3. \/ started /\ publishing' = <<Push(pushes + 1)>> /\ queuedEvents' = queuedEvents
        \/ /\ ~started /\ publishing' = <<>>
           /\ queuedEvents' = Append(queuedEvents, Push(pushes + 1))
    OBVIOUS
  <1> HIDE DEF PushEvent, connVars
  <1> USE DEF IInv
  <1>4. /\ pushes \in Nat /\ pushes + 1 \in 1..MaxPushes /\ pushes <= MaxPushes
        /\ initialData \in Nat /\ refreshed \in Nat
    BY <1>1, ConstantsAssumption DEF TypeInv, TypeOK
  <1>5. /\ base \in Seq(Nat) /\ Len(base) = pushes
        /\ base' \in Seq(Nat) /\ Len(base') = pushes'
        /\ base'[pushes + 1] = refreshed
        /\ \A k \in 1..pushes : base'[k] = base[k]
    BY <1>1, <1>4 DEF TypeInv, TypeOK
  <1>6. audience' \in Seq(SUBSET Conns) /\ Len(audience') = pushes'
    <2> DEFINE a == {c \in Conns : conn[c] # "new"}
    <2>1. a \in SUBSET Conns /\ audience' = Append(audience, a) /\ pushes' = pushes + 1
      BY <1>1
    <2> HIDE DEF a
    <2>2. audience \in Seq(SUBSET Conns) /\ Len(audience) = pushes
      BY DEF TypeInv, TypeOK
    <2> QED
      BY <2>1, <2>2
  <1>7. Push(pushes + 1) \in Events
    BY <1>4, EventsAre
  <1>8. TypeInv'
    <2> DEFINE e == Push(pushes + 1)
    <2>4. /\ publishing' = <<>> \/ publishing' = <<e>>
          /\ queuedEvents' = queuedEvents \/ queuedEvents' = Append(queuedEvents, e)
      BY <1>3
    <2>5. e \in Events /\ queuedEvents \in Seq(Events)
      BY <1>7 DEF TypeInv, TypeOK
    <2> HIDE DEF e
    <2>6. <<e>> \in Seq(Events) /\ Len(<<e>>) <= 1 /\ <<>> \in Seq(Events) /\ Len(<<>>) <= 1
      BY <2>5
    <2>1. publishing' \in Seq(Events) /\ Len(publishing') <= 1
      BY <2>4, <2>6, Zenon
    <2>2. queuedEvents' \in Seq(Events)
      BY <2>4, <2>5
    <2>3. pushes' \in 0..MaxPushes
      BY <1>1, <1>4
    <2> QED
      BY <1>2, <1>5, <1>6, <2>1, <2>2, <2>3 DEF TypeInv, TypeOK
  <1>9. Pushed' = Append(Pushed, Push(pushes + 1))
    <2>1. Pushed \in Seq(Events) /\ Len(Pushed) = pushes /\ \A k \in 1..pushes : Pushed[k] = Push(k)
      BY <1>4, PushedIs
    <2>2. Pushed' = [k \in 1..pushes + 1 |-> Push(k)]
      BY <1>1 DEF Pushed, Push
    <2>3. /\ Append(Pushed, Push(pushes + 1)) \in Seq(Events)
          /\ Len(Append(Pushed, Push(pushes + 1))) = pushes + 1
          /\ \A k \in 1..pushes + 1 : Append(Pushed, Push(pushes + 1))[k] = Push(k)
      BY <1>4, <1>7, <2>1
    <2> QED
      BY <1>4, <2>2, <2>3
  <1>10. QueueInv'
    BY <1>2, <1>3, <1>9 DEF QueueInv
  <1>11. PublishingInv'
    BY <1>1, <1>2, <1>3, <1>4, <1>5 DEF PublishingInv
  <1>12. BaseInv'
    BY <1>1, <1>2, <1>4, <1>5 DEF BaseInv
  <1>13. FreshInv' /\ DrainInv' /\ ReachedInv'
    BY <1>2 DEF FreshInv, Replaying, DrainInv, ReachedInv, Subscribed
  <1>14. SentInv'
    BY <1>1, <1>2, <1>4, WithinGrows DEF SentInv, TypeInv, TypeOK
  <1>15. PushesFollowTheirData'
    <2> SUFFICES ASSUME NEW c \in Conns PROVE Follows(sent[c], base')
      BY <1>2 DEF PushesFollowTheirData
    <2>1. sent[c] \in Seq(Events) /\ Within(sent[c], Len(base), initialData)
      BY <1>5 DEF TypeInv, TypeOK, SentInv
    <2> QED
      BY <1>1, <1>4, <1>5, <2>1, FollowsGrow DEF PushesFollowTheirData
  <1>16. FirstClientSeesEveryPush'
    <2>1. CASE first = "none"
      BY <1>2, <1>10, <2>1 DEF QueueInv, FirstClientSeesEveryPush
    <2>2. CASE first # "none" /\ conn[first] \in {"closed", "gone"}
      BY <1>2, <2>2 DEF FirstClientSeesEveryPush
    <2>3. CASE first # "none" /\ Carries(sent[first] \o publishing, pushes)
      <3>1. first \in Conns /\ sent[first] \in Seq(Events)
        BY <2>3 DEF TypeInv, TypeOK
      <3>2. Carries(sent[first], pushes)
        BY <1>1, <2>3, <3>1, NothingAdded
      <3>3. publishing' = <<Push(pushes + 1)>>
        BY <1>3, <2>3 DEF QueueInv
      <3>4. Carries(sent[first] \o publishing', pushes')
        BY <1>1, <1>4, <3>1, <3>2, <3>3, CarriesPush
      <3> QED
        BY <1>2, <2>3, <3>4 DEF FirstClientSeesEveryPush
    <2> QED
      BY <2>1, <2>2, <2>3 DEF FirstClientSeesEveryPush
  <1> QED
    BY <1>8, <1>10, <1>11, <1>12, <1>13, <1>14, <1>15, <1>16

\* What the test is blocked on, and what the loop makes of it.
LEMMA PublishedIs ==
    ASSUME IInv, publishing # <<>>,
           refreshed' = IF publishing[1].name = "put" THEN publishing[1].n ELSE refreshed
    PROVE  \/ /\ initialData \in 1..MaxVersion /\ publishing = <<Put(initialData)>>
              /\ refreshed' = initialData
           \/ /\ started /\ pushes \in 1..MaxPushes /\ publishing = <<Push(pushes)>>
              /\ base[pushes] = refreshed /\ refreshed' = refreshed
  <1>1. /\ initialData \in 0..MaxVersion /\ pushes \in 0..MaxPushes
        /\ MaxVersion \in Nat /\ MaxPushes \in Nat
    BY ConstantsAssumption DEF IInv, TypeInv, TypeOK
  <1>2. CASE initialData > 0 /\ publishing = <<Put(initialData)>>
    <2>1. publishing[1] = Put(initialData)
      BY <1>2
    <2>2. refreshed' = initialData
      BY <2>1 DEF Put
    <2> QED
      BY <1>1, <1>2, <2>2
  <1>3. CASE /\ started /\ pushes > 0 /\ publishing = <<Push(pushes)>>
             /\ base[pushes] = refreshed
    <2>1. publishing[1] = Push(pushes)
      BY <1>3
    <2>2. refreshed' = refreshed
      BY <2>1 DEF Push
    <2> QED
      BY <1>1, <1>3, <2>2
  <1> QED
    BY <1>2, <1>3 DEF IInv, PublishingInv

LEMMA LoopPublishStep == IInv /\ LoopPublish => IInv'
  <1> SUFFICES ASSUME IInv, LoopPublish PROVE IInv'
    OBVIOUS
  <1>1. /\ loop = Idle /\ publishing # <<>> /\ publishing' = <<>>
        /\ TrySend(Subscribed, publishing)
        /\ refreshed' = IF publishing[1].name = "put" THEN publishing[1].n ELSE refreshed
    BY DEF LoopPublish
  <1>2. /\ initialData' = initialData /\ started' = started /\ queuedEvents' = queuedEvents
        /\ loop' = loop /\ hungUp' = hungUp /\ pushes' = pushes /\ refreshes' = refreshes
        /\ base' = base /\ audience' = audience /\ first' = first
    BY DEF LoopPublish, serviceVars
  <1> USE DEF IInv
  <1>3. \/ /\ initialData \in 1..MaxVersion /\ publishing = <<Put(initialData)>>
           /\ refreshed' = initialData
        \/ /\ started /\ pushes \in 1..MaxPushes /\ publishing = <<Push(pushes)>>
           /\ base[pushes] = refreshed /\ refreshed' = refreshed
    BY <1>1, PublishedIs
  <1>4. /\ publishing \in Seq(Events) /\ sent \in [Conns -> Seq(Events)]
        /\ conn \in [Conns -> Stages]
        /\ pushes \in Nat /\ initialData \in Nat /\ refreshed \in Nat
        /\ refreshed <= initialData
        /\ pushes <= MaxPushes
    BY ConstantsAssumption DEF TypeInv, TypeOK, Stages, BaseInv
  <1>5. Subscribed \in SUBSET Conns /\ \A c \in Conns : ~Replaying(c)
    BY <1>1 DEF Subscribed, Replaying
  <1>6. /\ sent' \in [Conns -> Seq(Events)]
        /\ unread' \in [Conns -> 0..BufferSize]
        /\ conn' \in [Conns -> Stages]
        /\ \A c \in Conns : Tried(c, Subscribed, publishing)
    BY <1>1, <1>4, <1>5, TrySendIs
  <1>7. \A c \in Conns :
                \/ /\ c \in Subscribed
                   /\ sent'[c] = sent[c] \o publishing /\ conn'[c] = conn[c]
                \/ /\ c \in Subscribed
                   /\ sent'[c] = sent[c] /\ conn'[c] = "closed"
                \/ /\ c \notin Subscribed
                   /\ sent'[c] = sent[c] /\ conn'[c] = conn[c] /\ unread'[c] = unread[c]
    BY <1>6 DEF Tried
  <1>8. TypeInv'
    <2>1. refreshed' \in 0..MaxVersion
      BY <1>3 DEF TypeInv, TypeOK
    <2>2. publishing' \in Seq(Events) /\ Len(publishing') <= 1
      BY <1>1
    <2>3. /\ initialData' \in 0..MaxVersion /\ started' \in BOOLEAN
          /\ queuedEvents' \in Seq(Events) /\ hungUp' \subseteq Conns
          /\ pushes' \in 0..MaxPushes /\ refreshes' \in 0..MaxRefreshes
          /\ base' \in Seq(Nat) /\ audience' \in Seq(SUBSET Conns)
          /\ Len(base') = pushes' /\ Len(audience') = pushes'
          /\ first' \in Conns \union {"none"}
      BY <1>2 DEF TypeInv, TypeOK
    <2>4. loop' = Idle
      BY <1>1, <1>2
    <2>5. TypeOK'
      BY <1>6, <2>1, <2>2, <2>3, <2>4 DEF TypeOK, Stages
    <2> QED
      BY <2>3, <2>5 DEF TypeInv
  <1>9. QueueInv' /\ PublishingInv'
    BY <1>1, <1>2 DEF QueueInv, Pushed, PublishingInv
  <1>10. refreshed' \in Nat /\ refreshed <= refreshed' /\ refreshed' <= initialData
    BY <1>3, <1>4
  <1>11. BaseInv'
    <2>1. \A k \in 1..pushes : base[k] \in Nat /\ base[k] <= refreshed
      BY DEF BaseInv, TypeInv, TypeOK
    <2> QED
      BY <1>2, <1>4, <1>10, <2>1 DEF BaseInv
  <1>12. FreshInv'
    <2>1. \A c \in Conns : Replaying(c)' <=> Replaying(c)
      BY <1>2 DEF Replaying
    <2>2. \A c \in Conns : conn'[c] \in {"new", "connecting"} =>
               c \notin Subscribed /\ conn'[c] = conn[c]
      BY <1>7 DEF Subscribed
    <2>3. ~started => Subscribed = {}
      BY <1>5 DEF FreshInv, Subscribed
    <2>4. started => first \in Conns
      BY DEF QueueInv, TypeInv, TypeOK
    <2>5. \A c \in Conns : conn'[c] \in {"new", "connecting"} \/ Replaying(c)' =>
               sent'[c] = <<>> /\ unread'[c] = 0
      BY <1>5, <1>7, <2>1, <2>2 DEF FreshInv
    <2>6. ~started' => \A c \in Conns : conn'[c] \in {"new", "connecting"} \/ Replaying(c)'
      BY <1>2, <1>5, <1>7, <2>3 DEF FreshInv
    <2>7. started' => conn'[first'] \notin {"new", "connecting"} /\ ~Replaying(first)'
      BY <1>2, <1>5, <2>1, <2>2, <2>4 DEF FreshInv
    <2>8. ~(loop' # Idle)
      BY <1>1, <1>2
    <2> QED
      BY <2>5, <2>6, <2>7, <2>8 DEF FreshInv
  <1>13. DrainInv'
    BY <1>1, <1>2, LoopIs DEF DrainInv
  <1>14. SentInv'
    <2> SUFFICES ASSUME NEW c \in Conns PROVE Within(sent'[c], pushes, initialData)
      BY <1>2 DEF SentInv
    <2>1. sent[c] \in Seq(Events) /\ Within(sent[c], pushes, initialData)
      BY <1>4 DEF SentInv
    <2>2. Within(sent[c] \o publishing, pushes, initialData)
      <3>1. CASE initialData \in 1..MaxVersion /\ publishing = <<Put(initialData)>>
        BY <1>4, <2>1, <3>1, WithinOne, EventsAre
      <3>2. CASE pushes \in 1..MaxPushes /\ publishing = <<Push(pushes)>>
        BY <1>4, <2>1, <3>2, WithinOne, EventsAre
      <3> QED
        BY <1>3, <3>1, <3>2
    <2> QED
      BY <1>7, <2>1, <2>2
  <1>15. ReachedInv'
    <2> SUFFICES ASSUME NEW c \in Conns, conn'[c] \in {"subscribed", "leaving"}, refreshed' > 0
                 PROVE  Reaches(sent'[c], refreshed')
      BY DEF ReachedInv, Subscribed
    <2>1. c \in Subscribed /\ sent'[c] = sent[c] \o publishing /\ sent[c] \in Seq(Events)
      BY <1>4, <1>7 DEF Subscribed
    <2>2. CASE /\ initialData \in 1..MaxVersion /\ publishing = <<Put(initialData)>>
               /\ refreshed' = initialData
      BY <2>1, <2>2, ReachesPut
    <2>3. CASE /\ pushes \in 1..MaxPushes /\ publishing = <<Push(pushes)>>
               /\ refreshed' = refreshed
      <3>1. Reaches(sent[c], refreshed)
        BY <1>5, <2>1, <2>3 DEF ReachedInv
      <3> QED
        BY <1>4, <2>1, <2>3, <3>1, ReachesPush
    <2> QED
      BY <1>3, <2>2, <2>3
  <1>16. PushesFollowTheirData'
    <2> SUFFICES ASSUME NEW c \in Conns PROVE Follows(sent'[c], base)
      BY <1>2 DEF PushesFollowTheirData
    <2>1. /\ sent[c] \in Seq(Events) /\ Follows(sent[c], base)
          /\ Within(sent[c], pushes, initialData)
      BY <1>4 DEF PushesFollowTheirData, SentInv
    <2>2. c \in Subscribed => Follows(sent[c] \o publishing, base)
      <3> SUFFICES ASSUME c \in Subscribed PROVE Follows(sent[c] \o publishing, base)
        OBVIOUS
      <3>1. CASE initialData \in 1..MaxVersion /\ publishing = <<Put(initialData)>>
        BY <2>1, <3>1, FollowsPut
      <3>2. CASE /\ pushes \in 1..MaxPushes /\ publishing = <<Push(pushes)>>
                 /\ base[pushes] = refreshed
        <4>1. base[pushes] > 0 => Reaches(sent[c], base[pushes])
          BY <1>5, <3>2 DEF ReachedInv
        <4> QED
          BY <2>1, <3>2, <4>1, FollowsPush
      <3> QED
        BY <1>3, <3>1, <3>2
    <2> QED
      BY <1>7, <2>1, <2>2
  <1>17. FirstClientSeesEveryPush'
    <2>1. CASE first = "none"
      BY <1>2, <1>9, <2>1 DEF QueueInv, FirstClientSeesEveryPush
    <2>2. CASE first # "none" /\ conn[first] \in {"closed", "gone"}
      <3>1. first \in Conns /\ first \notin Subscribed
        BY <2>2 DEF TypeInv, TypeOK, Subscribed
      <3> QED
        BY <1>2, <1>7, <2>2, <3>1 DEF FirstClientSeesEveryPush
    <2>3. CASE /\ first # "none" /\ conn[first] \notin {"closed", "gone"}
               /\ Carries(sent[first] \o publishing, pushes)
      <3>1. first \in Conns /\ conn[first] \in Stages
        BY <1>4, <2>3 DEF TypeInv, TypeOK
      <3>2. conn[first] \notin {"new", "connecting"}
        BY <2>3, <3>1 DEF FreshInv, QueueInv
      <3>3. first \in Subscribed
        BY <2>3, <3>1, <3>2 DEF Stages, Subscribed
      <3>4. CASE conn'[first] = "closed"
        BY <1>2, <2>3, <3>4 DEF FirstClientSeesEveryPush
      <3>5. CASE sent'[first] = sent[first] \o publishing
        <4>1. sent'[first] \o publishing' = sent[first] \o publishing
          BY <1>1, <1>6, <3>1, <3>5, NothingAdded
        <4> QED
          BY <1>2, <2>3, <4>1 DEF FirstClientSeesEveryPush
      <3> QED
        BY <1>7, <3>1, <3>3, <3>4, <3>5
    <2> QED
      BY <2>1, <2>2, <2>3 DEF FirstClientSeesEveryPush
  <1> QED
    BY <1>8, <1>9, <1>11, <1>12, <1>13, <1>14, <1>15, <1>16, <1>17

\* The steps of a connection alone: it moves on, or the handler writes an entry.
Moves(c) ==
    \/ conn[c] = "new" /\ conn'[c] = "connecting"
    \/ conn[c] = "subscribed" /\ conn'[c] \in {"subscribed", "leaving"}
    \/ conn[c] = "leaving" /\ conn'[c] \in {"leaving", "gone"} /\ (loop # Idle => conn'[c] = "leaving")
    \/ conn[c] = "closed" /\ conn'[c] \in {"closed", "gone"}
    \/ conn'[c] = conn[c]

LEMMA ConnStepIs ==
    ASSUME IInv, NEW c \in Conns, ConnStep(c) \/ LoopUnsubscribe(c)
    PROVE  /\ conn' \in [Conns -> Stages] /\ hungUp' \subseteq Conns
           /\ unread' \in [Conns -> 0..BufferSize]
           /\ \A d \in Conns : Moves(d) /\ (unread[d] = 0 => unread'[d] = 0)
           /\ sent' = sent /\ loop' = loop /\ publishing' = publishing
           /\ initialData' = initialData /\ started' = started
           /\ queuedEvents' = queuedEvents
           /\ pushes' = pushes /\ refreshes' = refreshes /\ refreshed' = refreshed
           /\ base' = base /\ audience' = audience /\ first' = first
  <1>1. /\ unread \in [Conns -> 0..BufferSize] /\ conn \in [Conns -> Stages]
        /\ hungUp \subseteq Conns /\ BufferSize \in Nat
    BY ConstantsAssumption DEF IInv, TypeInv, TypeOK, Stages
  <1>2. /\ sent' = sent /\ loop' = loop /\ publishing' = publishing
        /\ initialData' = initialData /\ started' = started
        /\ queuedEvents' = queuedEvents
        /\ pushes' = pushes /\ refreshes' = refreshes /\ refreshed' = refreshed
        /\ base' = base /\ audience' = audience /\ first' = first
    BY DEF ConnStep, Connect, HandlerWrite, HangUp, HandlerLeave, LoopUnsubscribe,
           serviceVars, historyVars
  <1>3. CASE \E s \in Stages :
               /\ conn' = [conn EXCEPT ![c] = s] /\ unread' = unread /\ hungUp' = hungUp
               /\ \/ conn[c] = "new" /\ s = "connecting"
                  \/ conn[c] = "subscribed" /\ s = "leaving"
                  \/ conn[c] = "closed" /\ s = "gone"
                  \/ conn[c] = "leaving" /\ s = "gone" /\ loop = Idle
    <2>1. PICK s \in Stages :
               /\ conn' = [conn EXCEPT ![c] = s] /\ unread' = unread /\ hungUp' = hungUp
               /\ \/ conn[c] = "new" /\ s = "connecting"
                  \/ conn[c] = "subscribed" /\ s = "leaving"
                  \/ conn[c] = "closed" /\ s = "gone"
                  \/ conn[c] = "leaving" /\ s = "gone" /\ loop = Idle
      BY <1>3
    <2>2. conn' \in [Conns -> Stages] /\ conn'[c] = s
          /\ \A d \in Conns \ {c} : conn'[d] = conn[d]
      BY <1>1, <2>1
    <2>3. \A d \in Conns : Moves(d)
      BY <2>1, <2>2 DEF Moves
    <2> QED
      BY <1>1, <1>2, <2>1, <2>2, <2>3
  <1>4. CASE HandlerWrite(c)
    <2>1. unread' = [unread EXCEPT ![c] = @ - 1] /\ unread[c] > 0
          /\ conn' = conn /\ hungUp' = hungUp
      BY <1>4 DEF HandlerWrite
    <2>2. unread' \in [Conns -> 0..BufferSize]
      BY <1>1, <2>1
    <2>3. \A d \in Conns : unread[d] = 0 => unread'[d] = 0
      BY <1>1, <2>1
    <2> QED
      BY <1>1, <1>2, <2>1, <2>2, <2>3 DEF Moves
  <1>5. CASE HangUp(c)
    <2>1. conn' = conn /\ unread' = unread /\ hungUp' = hungUp \union {c}
      BY <1>5 DEF HangUp
    <2> QED
      BY <1>1, <1>2, <2>1 DEF Moves
  <1>6. CASE Connect(c)
    <2>1. conn[c] = "new" /\ conn' = [conn EXCEPT ![c] = "connecting"]
          /\ unread' = unread /\ hungUp' = hungUp
      BY <1>6 DEF Connect
    <2> QED
      BY <1>3, <2>1 DEF Stages
  <1>7. CASE HandlerLeave(c)
    <2>1. unread' = unread /\ hungUp' = hungUp
      BY <1>7 DEF HandlerLeave
    <2>2. \/ conn[c] = "subscribed" /\ conn' = [conn EXCEPT ![c] = "leaving"]
          \/ conn[c] = "closed" /\ conn' = [conn EXCEPT ![c] = "gone"]
      BY <1>7 DEF HandlerLeave
    <2> QED
      BY <1>3, <2>1, <2>2 DEF Stages
  <1>8. CASE LoopUnsubscribe(c)
    <2>1. /\ conn[c] = "leaving" /\ loop = Idle /\ conn' = [conn EXCEPT ![c] = "gone"]
          /\ unread' = unread /\ hungUp' = hungUp
      BY <1>8 DEF LoopUnsubscribe
    <2> QED
      BY <1>3, <2>1 DEF Stages
  <1> QED
    BY <1>4, <1>5, <1>6, <1>7, <1>8 DEF ConnStep

LEMMA ConnStepStep ==
    ASSUME IInv, NEW c \in Conns, ConnStep(c) \/ LoopUnsubscribe(c)
    PROVE  IInv'
  <1>1. /\ conn' \in [Conns -> Stages] /\ hungUp' \subseteq Conns
        /\ unread' \in [Conns -> 0..BufferSize]
        /\ \A d \in Conns : Moves(d) /\ (unread[d] = 0 => unread'[d] = 0)
    BY ConnStepIs
  <1>2. /\ sent' = sent /\ loop' = loop /\ publishing' = publishing
        /\ initialData' = initialData /\ started' = started
        /\ queuedEvents' = queuedEvents
        /\ pushes' = pushes /\ refreshes' = refreshes /\ refreshed' = refreshed
        /\ base' = base /\ audience' = audience /\ first' = first
    BY ConnStepIs
  <1> USE DEF IInv
  <1>3. conn \in [Conns -> Stages]
    BY DEF TypeInv, TypeOK, Stages
  <1>4. TypeInv'
    BY <1>1, <1>2 DEF TypeInv, TypeOK, Stages
  <1>5. QueueInv' /\ PublishingInv' /\ BaseInv' /\ DrainInv' /\ SentInv' /\ PushesFollowTheirData'
    BY <1>2 DEF QueueInv, Pushed, PublishingInv, BaseInv, DrainInv, SentInv,
                PushesFollowTheirData
  <1>6. \A d \in Conns : Replaying(d)' <=> Replaying(d)
    BY <1>2 DEF Replaying
  <1>7. \A d \in Conns : (conn'[d] \in {"new", "connecting"}) <=> (conn[d] \in {"new", "connecting"})
    BY <1>1 DEF Moves
  <1>8. FreshInv'
    <2>1. \A d \in Conns : conn'[d] \in {"new", "connecting"} \/ Replaying(d)' =>
               sent'[d] = <<>> /\ unread'[d] = 0
      BY <1>1, <1>2, <1>6, <1>7 DEF FreshInv
    <2>2. loop' # Idle => conn'[loop'.conn] \in {"subscribed", "leaving"}
      <3> SUFFICES ASSUME loop # Idle PROVE conn'[loop.conn] \in {"subscribed", "leaving"}
        BY <1>2
      <3>1. loop.conn \in Conns /\ conn[loop.conn] \in {"subscribed", "leaving"}
        BY LoopIs DEF FreshInv
      <3> QED
        BY <1>1, <3>1 DEF Moves
    <2>3. ~started' => \A d \in Conns : conn'[d] \in {"new", "connecting"} \/ Replaying(d)'
      BY <1>2, <1>6, <1>7 DEF FreshInv
    <2>4. started' => conn'[first'] \notin {"new", "connecting"} /\ ~Replaying(first)'
      BY <1>2, <1>6, <1>7 DEF FreshInv, QueueInv, TypeInv, TypeOK
    <2> QED
      BY <2>1, <2>2, <2>3, <2>4 DEF FreshInv
  <1>9. ReachedInv'
    <2>1. Subscribed' \subseteq Subscribed
      BY <1>1, <1>3 DEF Subscribed, Moves, Stages
    <2> QED
      BY <1>2, <1>6, <2>1 DEF ReachedInv, Subscribed
  <1>10. FirstClientSeesEveryPush'
    <2>1. CASE first = "none"
      BY <1>2, <2>1 DEF QueueInv, FirstClientSeesEveryPush, Pushed
    <2>2. CASE first # "none"
      <3>1. first \in Conns
        BY <2>2 DEF TypeInv, TypeOK
      <3>2. conn[first] \in {"closed", "gone"} => conn'[first] \in {"closed", "gone"}
        BY <1>1, <3>1 DEF Moves
      <3> QED
        BY <1>2, <2>2, <3>2 DEF FirstClientSeesEveryPush
    <2> QED
      BY <2>1, <2>2
  <1> QED
    BY <1>4, <1>5, <1>8, <1>9, <1>10

LEMMA LoopSubscribeStep ==
    ASSUME IInv, NEW c \in Conns, LoopSubscribe(c)
    PROVE  IInv'
  <1>1. /\ loop = Idle /\ conn[c] = "connecting" /\ conn' = [conn EXCEPT ![c] = "subscribed"]
        /\ loop' = [at |-> "replay", conn |-> c]
    BY DEF LoopSubscribe
  <1>2. /\ sent' = sent /\ unread' = unread /\ hungUp' = hungUp /\ publishing' = publishing
        /\ initialData' = initialData /\ started' = started
        /\ queuedEvents' = queuedEvents
        /\ pushes' = pushes /\ refreshes' = refreshes /\ refreshed' = refreshed
        /\ base' = base /\ audience' = audience /\ first' = first
    BY DEF LoopSubscribe, serviceVars, historyVars
  <1> USE DEF IInv
  <1>3. conn \in [Conns -> Stages] /\ Stages = {"new", "connecting", "subscribed", "leaving", "closed", "gone"}
    BY DEF TypeInv, TypeOK, Stages
  <1>4. /\ conn' \in [Conns -> Stages] /\ conn'[c] = "subscribed"
        /\ \A d \in Conns \ {c} : conn'[d] = conn[d]
    BY <1>1, <1>3
  <1>5. /\ loop' # Idle /\ loop'.conn = c /\ loop'.at = "replay"
        /\ loop' \in [at : {"replay"}, conn : Conns]
    <2>1. loop'.at = "replay" /\ loop'.conn = c /\ loop' \in [at : {"replay"}, conn : Conns]
      BY <1>1
    <2>2. Idle.at = "idle"
      BY DEF Idle
    <2> QED
      BY <2>1, <2>2
  <1>6. TypeInv'
    BY <1>2, <1>3, <1>4, <1>5 DEF TypeInv, TypeOK
  <1>7. QueueInv' /\ PublishingInv' /\ BaseInv' /\ SentInv' /\ PushesFollowTheirData'
    BY <1>2 DEF QueueInv, Pushed, PublishingInv, BaseInv, SentInv, PushesFollowTheirData
  <1>8. DrainInv'
    BY <1>5 DEF DrainInv
  <1>9. \A d \in Conns : ~Replaying(d) /\ (Replaying(d)' <=> d = c)
    <2>1. \A d \in Conns : ~Replaying(d)
      BY <1>1 DEF Replaying
    <2>2. \A d \in Conns : Replaying(d)' <=> d = c
      BY <1>5 DEF Replaying
    <2> QED
      BY <2>1, <2>2
  <1>10. first # c
    BY <1>1, ConstantsAssumption DEF FreshInv, QueueInv
  <1>11. first # "none" => first \in Conns \ {c} /\ conn'[first] = conn[first]
    BY <1>4, <1>10 DEF TypeInv, TypeOK
  <1>12. FreshInv'
    <2>1. \A d \in Conns : conn'[d] \in {"new", "connecting"} \/ Replaying(d)' =>
               sent'[d] = <<>> /\ unread'[d] = 0
      BY <1>1, <1>2, <1>4, <1>9 DEF FreshInv
    <2>2. loop' # Idle => conn'[loop'.conn] \in {"subscribed", "leaving"}
      BY <1>4, <1>5
    <2>3. ~started' => \A d \in Conns : conn'[d] \in {"new", "connecting"} \/ Replaying(d)'
      BY <1>2, <1>4, <1>9 DEF FreshInv
    <2>4. started' => conn'[first'] \notin {"new", "connecting"} /\ ~Replaying(first)'
      BY <1>2, <1>9, <1>11 DEF FreshInv, QueueInv
    <2> QED
      BY <2>1, <2>2, <2>3, <2>4 DEF FreshInv
  <1>13. ReachedInv'
    <2>1. \A d \in Conns \ {c} : d \in Subscribed' => d \in Subscribed
      BY <1>4 DEF Subscribed
    <2>2. \A d \in Subscribed' : ~Replaying(d)' => d \in Subscribed
      BY <1>9, <2>1 DEF Subscribed
    <2> QED
      BY <1>2, <1>9, <2>2 DEF ReachedInv, Subscribed
  <1>14. FirstClientSeesEveryPush'
    BY <1>2, <1>11 DEF QueueInv, FirstClientSeesEveryPush, Pushed
  <1> QED
    BY <1>6, <1>7, <1>8, <1>12, <1>13, <1>14

LEMMA ReplayPutStep == IInv /\ ReplayPut => IInv'
  <1> SUFFICES ASSUME IInv, ReplayPut PROVE IInv'
    OBVIOUS
  <1> DEFINE put == IF initialData = 0 THEN <<>> ELSE <<Put(initialData)>>
  <1>1. /\ loop.at = "replay" /\ loop' = [at |-> "drain", conn |-> loop.conn, put |-> put]
    BY DEF ReplayPut
  <1>2. /\ sent' = sent /\ unread' = unread /\ hungUp' = hungUp /\ publishing' = publishing
        /\ conn' = conn
        /\ initialData' = initialData /\ started' = started
        /\ queuedEvents' = queuedEvents
        /\ pushes' = pushes /\ refreshes' = refreshes /\ refreshed' = refreshed
        /\ base' = base /\ audience' = audience /\ first' = first
    BY DEF ReplayPut, serviceVars, historyVars, connVars
  <1> USE DEF IInv
  <1>3. loop # Idle /\ loop.conn \in Conns
    BY <1>1, LoopIs
  <1>4. /\ initialData \in 0..MaxVersion /\ refreshed \in Nat /\ refreshed <= initialData
        /\ initialData \in Nat /\ MaxVersion \in Nat
    BY ConstantsAssumption DEF TypeInv, TypeOK, BaseInv
  <1>5. \/ put = <<>> /\ initialData = 0
        \/ put = <<Put(initialData)>> /\ initialData \in 1..MaxVersion
    BY <1>4
  <1>6. put \in Seq(Events)
    BY <1>5, ShortStream
  <1> HIDE DEF put
  <1>7. /\ loop' # Idle /\ loop'.conn = loop.conn /\ loop'.at = "drain" /\ loop'.put = put
        /\ loop' \in [at : {"drain"}, conn : Conns, put : Seq(Events)]
    <2>1. /\ loop'.at = "drain" /\ loop'.conn = loop.conn /\ loop'.put = put
          /\ loop' \in [at : {"drain"}, conn : Conns, put : Seq(Events)]
      BY <1>1, <1>3, <1>6
    <2>2. Idle.at = "idle"
      BY DEF Idle
    <2> QED
      BY <2>1, <2>2
  <1>8. TypeInv'
    BY <1>2, <1>7 DEF TypeInv, TypeOK
  <1>9. /\ QueueInv' /\ PublishingInv' /\ BaseInv' /\ SentInv' /\ PushesFollowTheirData'
        /\ FirstClientSeesEveryPush'
    BY <1>2 DEF QueueInv, Pushed, PublishingInv, BaseInv, SentInv, PushesFollowTheirData,
                FirstClientSeesEveryPush
  <1>10. \A d \in Conns : Replaying(d)' <=> Replaying(d)
    BY <1>3, <1>7 DEF Replaying
  <1>11. DrainInv'
    BY <1>2, <1>4, <1>5, <1>7 DEF DrainInv
  <1>12. FreshInv'
    <2>1. \A d \in Conns : conn'[d] \in {"new", "connecting"} \/ Replaying(d)' =>
               sent'[d] = <<>> /\ unread'[d] = 0
      BY <1>2, <1>10 DEF FreshInv
    <2>2. loop' # Idle => conn'[loop'.conn] \in {"subscribed", "leaving"}
      BY <1>2, <1>3, <1>7 DEF FreshInv
    <2>3. ~started' => \A d \in Conns : conn'[d] \in {"new", "connecting"} \/ Replaying(d)'
      BY <1>2, <1>10 DEF FreshInv
    <2>4. started' => conn'[first'] \notin {"new", "connecting"} /\ ~Replaying(first)'
      BY <1>2, <1>10 DEF FreshInv, QueueInv, TypeInv, TypeOK
    <2> QED
      BY <2>1, <2>2, <2>3, <2>4 DEF FreshInv
  <1>13. ReachedInv'
    BY <1>2, <1>10 DEF ReachedInv, Subscribed
  <1> QED
    BY <1>8, <1>9, <1>11, <1>12, <1>13

LEMMA ReplayDrainStep == IInv /\ ReplayDrain => IInv'
  <1> SUFFICES ASSUME IInv, ReplayDrain PROVE IInv'
    OBVIOUS
  <1> DEFINE c == loop.conn
             batch == loop.put \o queuedEvents
  <1>1. /\ loop.at = "drain" /\ started' = TRUE
        /\ queuedEvents' = IF started THEN queuedEvents ELSE <<>>
        /\ TrySend({c}, batch)
        /\ loop' = Idle
        /\ first' = IF first = "none" THEN c ELSE first
    BY DEF ReplayDrain
  <1>2. /\ hungUp' = hungUp /\ publishing' = publishing /\ initialData' = initialData
        /\ pushes' = pushes /\ refreshes' = refreshes /\ refreshed' = refreshed
        /\ base' = base /\ audience' = audience
    BY DEF ReplayDrain
  <1> USE DEF IInv
  <1>3. loop # Idle /\ c \in Conns /\ loop.put \in Seq(Events) /\ Replaying(c)
    BY <1>1, LoopIs DEF Replaying
  <1>4. /\ initialData \in 0..MaxVersion /\ refreshed \in Nat
        /\ initialData \in Nat /\ MaxVersion \in Nat /\ pushes \in Nat /\ pushes <= MaxPushes
        /\ sent \in [Conns -> Seq(Events)] /\ BufferSize \in Nat \ {0}
        /\ conn \in [Conns -> Stages]
        /\ queuedEvents \in Seq(Events) /\ publishing \in Seq(Events)
    BY ConstantsAssumption DEF TypeInv, TypeOK, Stages
  <1>5. Pushed \in Seq(Events)
    BY <1>4, PushedIs
  \* The batch: the put that Replay has read, and the queue for the first client.
  <1>6. /\ batch \in Seq(Events) /\ Follows(batch, base)
        /\ Within(batch, pushes, initialData)
        /\ refreshed > 0 => Reaches(batch, refreshed)
        /\ ~started => Carries(batch, pushes)
    <2>1. queuedEvents = IF started THEN <<>> ELSE Pushed
      BY DEF QueueInv
    <2>2. CASE loop.put = <<>> /\ refreshed = 0
      <3>1. batch = IF started THEN <<>> ELSE Pushed
        BY <1>5, <2>1, <2>2, NothingAdded
      <3>4. 1 \in 1..MaxVersion
        BY ConstantsAssumption
      <3>2. Carries(Pushed, pushes)
        BY <1>4, <3>4, CarriesQueue
      <3>3. <<>> \in Seq(Events)
        OBVIOUS
      <3> QED
        BY <1>4, <1>5, <2>2, <3>1, <3>2, <3>3, ShortStream
    <2>3. CASE \E v \in 1..initialData : v >= refreshed /\ loop.put = <<Put(v)>>
      <3>1. PICK v \in 1..initialData : v >= refreshed /\ loop.put = <<Put(v)>>
        BY <2>3
      <3>2. v \in 1..MaxVersion /\ v <= initialData /\ refreshed <= v
        BY <1>4, <3>1
      <3>3. CASE started
        <4>1. batch = <<Put(v)>>
          BY <1>3, <2>1, <3>1, <3>3, NothingAdded
        <4> QED
          BY <3>1, <3>2, <3>3, <4>1, ShortStream
      <3>4. CASE ~started
        <4>1. batch = <<Put(v)>> \o Pushed
          BY <2>1, <3>1, <3>4
        <4>2. Carries(<<Put(v)>> \o Pushed, pushes)
          BY <1>4, <3>2, CarriesQueue
        <4> QED
          BY <3>2, <4>1, <4>2, ReplayedStream
      <3> QED
        BY <3>3, <3>4
    <2> QED
      BY <1>1, <2>2, <2>3 DEF DrainInv
  <1> HIDE DEF batch
  \* The new subscription has room for it.
  <1>7. sent[c] = <<>> /\ unread[c] # BufferSize
    BY <1>3, <1>4 DEF FreshInv
  <1>8. /\ sent' \in [Conns -> Seq(Events)]
        /\ unread' \in [Conns -> 0..BufferSize]
        /\ conn' \in [Conns -> Stages]
        /\ \A d \in Conns : Tried(d, {c}, batch)
    <2>1. {c} \in SUBSET Conns
      BY <1>3
    <2> QED
      BY <1>1, <1>6, <2>1, TrySendIs
  <1>9. /\ sent'[c] = batch /\ conn'[c] = conn[c]
        /\ \A d \in Conns \ {c} :
               sent'[d] = sent[d] /\ conn'[d] = conn[d] /\ unread'[d] = unread[d]
    <2>1. Tried(c, {c}, batch)
      BY <1>3, <1>8
    <2>2. sent'[c] = sent[c] \o batch /\ conn'[c] = conn[c]
      BY <1>7, <2>1 DEF Tried
    <2>3. sent'[c] = batch
      BY <1>6, <1>7, <2>2, NothingAdded
    <2>4. \A d \in Conns \ {c} :
               sent'[d] = sent[d] /\ conn'[d] = conn[d] /\ unread'[d] = unread[d]
      BY <1>8 DEF Tried
    <2> QED
      BY <2>2, <2>3, <2>4
  <1>10. conn[c] \in {"subscribed", "leaving"}
    BY <1>3 DEF FreshInv
  <1> HIDE DEF c
  <1>11. first' \in Conns
    BY <1>1, <1>3 DEF TypeInv, TypeOK
  <1>12. queuedEvents' = <<>>
    BY <1>1 DEF QueueInv
  <1>13. TypeInv'
    <2>1. queuedEvents' \in Seq(Events)
      BY <1>12
    <2>2. started' \in BOOLEAN
      BY <1>1
    <2> QED
      BY <1>1, <1>2, <1>8, <1>11, <2>1, <2>2 DEF TypeInv, TypeOK, Stages
  <1>14. QueueInv'
    BY <1>1, <1>11, <1>12, ConstantsAssumption DEF QueueInv
  <1>15. PublishingInv'
    BY <1>1, <1>2 DEF PublishingInv
  <1>16. BaseInv'
    BY <1>2 DEF BaseInv
  <1>17. \A d \in Conns : ~Replaying(d)' /\ (Replaying(d) <=> d = c)
    BY <1>1, <1>3 DEF Replaying, c
  <1>18. DrainInv'
    BY <1>1, LoopIs DEF DrainInv
  \* The client of the first Replay stays the same.
  <1>19. started => first' = first /\ first # c
    BY <1>1, <1>3 DEF FreshInv, QueueInv
  <1>20. ~started => first' = c
    BY <1>1 DEF QueueInv
  <1>21. FreshInv'
    <2>1. \A d \in Conns : conn'[d] \in {"new", "connecting"} \/ Replaying(d)' =>
               sent'[d] = <<>> /\ unread'[d] = 0
      BY <1>9, <1>10, <1>17 DEF FreshInv
    <2>2. ~(loop' # Idle) /\ started'
      BY <1>1
    <2>3. conn'[first'] \notin {"new", "connecting"} /\ ~Replaying(first)'
      BY <1>9, <1>10, <1>11, <1>17, <1>19, <1>20 DEF FreshInv
    <2> QED
      BY <2>1, <2>2, <2>3 DEF FreshInv
  <1>22. SentInv'
    BY <1>2, <1>6, <1>9 DEF SentInv
  <1>23. ReachedInv'
    <2> SUFFICES ASSUME NEW d \in Conns, conn'[d] \in {"subscribed", "leaving"}, refreshed > 0
                 PROVE  Reaches(sent'[d], refreshed)
      BY <1>2 DEF ReachedInv, Subscribed
    <2>1. CASE d = c
      BY <1>6, <1>9, <2>1
    <2>2. CASE d # c
      BY <1>9, <1>17, <2>2 DEF ReachedInv, Subscribed
    <2> QED
      BY <2>1, <2>2
  <1>24. PushesFollowTheirData'
    BY <1>2, <1>6, <1>9 DEF PushesFollowTheirData
  <1>25. FirstClientSeesEveryPush'
    <2>1. CASE started
      <3>1. first' = first /\ first \in Conns \ {c} /\ first # "none"
        BY <1>11, <1>19, <2>1 DEF QueueInv
      <3>2. sent'[first] = sent[first] /\ conn'[first] = conn[first]
        BY <1>9, <3>1
      <3> QED
        BY <1>2, <3>1, <3>2 DEF FirstClientSeesEveryPush
    <2>2. CASE ~started
      <3>1. first' = c /\ first' # "none" /\ sent'[first'] = batch
        BY <1>9, <1>11, <1>20, <2>2, ConstantsAssumption
      <3>2. Carries(batch, pushes)
        BY <1>6, <2>2
      <3>3. CASE publishing = <<>>
        <4>1. batch \o publishing' = batch
          BY <1>2, <1>6, <3>3, NothingAdded
        <4> QED
          BY <1>2, <3>1, <3>2, <4>1 DEF FirstClientSeesEveryPush
      <3>4. CASE initialData > 0 /\ publishing = <<Put(initialData)>>
        <4>1. Carries(batch \o publishing, pushes)
          BY <1>4, <1>6, <3>2, <3>4, CarriesPut
        <4> QED
          BY <1>2, <3>1, <4>1 DEF FirstClientSeesEveryPush
      <3> QED
        BY <2>2, <3>3, <3>4 DEF PublishingInv
    <2> QED
      BY <2>1, <2>2
  <1> QED
    BY <1>13, <1>14, <1>15, <1>16, <1>18, <1>21, <1>22, <1>23, <1>24, <1>25

LEMMA Inductive == IInv /\ [Next]_vars => IInv'
  <1> SUFFICES ASSUME IInv, [Next]_vars PROVE IInv'
    OBVIOUS
  <1>1. CASE TestStep
    BY <1>1, SetInitialDataStep, RefreshAllStep, PushEventStep DEF TestStep
  <1>2. CASE LoopStep
    BY <1>2, LoopPublishStep, ReplayPutStep, ReplayDrainStep, LoopSubscribeStep, ConnStepStep
       DEF LoopStep
  <1>3. CASE \E c \in Conns : ConnStep(c)
    BY <1>3, ConnStepStep
  <1>4. CASE UNCHANGED vars
    <2>1. /\ initialData' = initialData /\ started' = started /\ queuedEvents' = queuedEvents
          /\ publishing' = publishing /\ loop' = loop /\ conn' = conn /\ hungUp' = hungUp
          /\ sent' = sent /\ unread' = unread /\ pushes' = pushes /\ refreshes' = refreshes
          /\ refreshed' = refreshed /\ base' = base /\ audience' = audience /\ first' = first
      BY <1>4 DEF vars, serviceVars, connVars, historyVars
    <2> QED
      BY <2>1 DEF IInv, TypeInv, TypeOK, QueueInv, Pushed, PublishingInv, BaseInv, FreshInv,
                  Replaying, DrainInv, SentInv, ReachedInv, Subscribed,
                  PushesFollowTheirData, FirstClientSeesEveryPush
  <1> QED
    BY <1>1, <1>2, <1>3, <1>4 DEF Next

-------------------------------------------------------------------------------
LEMMA InvariantHolds == Spec => []IInv
  BY Initial, Inductive, PTL DEF Spec

\* The fields keep their types: the channel of no subscription holds more than its
\* capacity, and Publish hands over one event at a time.
THEOREM TypesCorrect == Spec => []TypeOK
  <1>1. IInv => TypeOK
    BY DEF IInv, TypeInv
  <1> QED
    BY <1>1, InvariantHolds, PTL

\* The first client is sent every event ever pushed, once and in order, whether it
\* was pushed before or after its Replay (Replay and PushEvent), unless it was too
\* slow and has been cut off.
THEOREM FirstClientServed == Spec => []FirstClientSeesEveryPush
  <1>1. IInv => FirstClientSeesEveryPush
    BY DEF IInv
  <1> QED
    BY <1>1, InvariantHolds, PTL

\* Every subscription that is alive has been sent data at least as new as the last
\* that RefreshAll published, or that the service was created with, also one whose
\* Replay was racing with RefreshAll.
THEOREM RefreshReaches == Spec => []RefreshReachesAll
  <1>1. IInv => RefreshReachesAll
    BY DEF IInv, ReachedInv, RefreshReachesAll, Subscribed, Replaying
  <1> QED
    BY <1>1, InvariantHolds, PTL

\* On every stream an event comes after data at least as new as what RefreshAll had
\* last published when it was pushed, or as what the service was created with, and
\* data never goes back to an older version (mockld/streaming_service.go:150-215).
THEOREM PushesFollow == Spec => []PushesFollowTheirData
  <1>1. IInv => PushesFollowTheirData
    BY DEF IInv
  <1> QED
    BY <1>1, InvariantHolds, PTL

-------------------------------------------------------------------------------
(* Each step of the service is a step of the contract or changes nothing   *)
(* of what the contract speaks about.                                      *)

\* What has become of the stream of c.
Seen(c) == IF conn[c] \in {"new", "connecting"} \/ Replaying(c) THEN "new"
           ELSE IF conn[c] \in {"subscribed", "leaving"} THEN "open" ELSE "over"

LEMMA StagesAre ==
    /\ contractStage = [c \in Conns |-> Seen(c)]
    /\ contractStage' = [c \in Conns |-> Seen(c)']
  BY DEF contractStage, Seen, Replaying

LEMMA SameStages ==
    ASSUME \A c \in Conns : Seen(c)' = Seen(c)
    PROVE  contractStage' = contractStage
  BY StagesAre

LEMMA StartedIs ==
    ASSUME IInv
    PROVE  Contract!Started <=> started
  <1>1. \A c \in Conns : contractStage[c] # "new" <=>
            ~(conn[c] \in {"new", "connecting"} \/ Replaying(c))
    BY StagesAre DEF Seen
  <1>2. started => first \in Conns
    BY DEF IInv, QueueInv, TypeInv, TypeOK
  <1> QED
    BY <1>1, <1>2 DEF IInv, FreshInv, Contract!Started

\* An event counts as pushed once the loop has published it, or has been queued.
LEMMA PushedCountIs ==
    /\ publishing = <<>> => contractPushed = pushes
    /\ \A v : publishing = <<Put(v)>> => contractPushed = pushes
    /\ \A k : publishing = <<Push(k)>> => contractPushed = pushes - 1
  <1>1. ASSUME NEW v, publishing = <<Put(v)>> PROVE contractPushed = pushes
    <2>1. publishing[1].name = "put"
      BY <1>1 DEF Put
    <2> QED
      BY <2>1 DEF contractPushed
  <1>2. ASSUME NEW k, publishing = <<Push(k)>> PROVE contractPushed = pushes - 1
    <2>1. publishing[1].name = "push" /\ publishing # <<>>
      BY <1>2 DEF Push
    <2> QED
      BY <2>1 DEF contractPushed
  <1> QED
    BY <1>1, <1>2 DEF contractPushed

LEMMA NextPushedCountIs ==
    /\ publishing' = <<>> => contractPushed' = pushes'
    /\ \A v : publishing' = <<Put(v)>> => contractPushed' = pushes'
    /\ \A k : publishing' = <<Push(k)>> => contractPushed' = pushes' - 1
  <1>1. ASSUME NEW v, publishing' = <<Put(v)>> PROVE contractPushed' = pushes'
    <2>1. publishing'[1].name = "put"
      BY <1>1 DEF Put
    <2> QED
      BY <2>1 DEF contractPushed
  <1>2. ASSUME NEW k, publishing' = <<Push(k)>> PROVE contractPushed' = pushes' - 1
    <2>1. publishing'[1].name = "push" /\ publishing' # <<>>
      BY <1>2 DEF Push
    <2> QED
      BY <2>1 DEF contractPushed
  <1> QED
    BY <1>1, <1>2 DEF contractPushed

LEMMA TestStepRefines ==
    ASSUME IInv, TestStep
    PROVE  [Contract!Next]_(Contract!contractVars)
  <1>1. /\ publishing = <<>> /\ contractPushed = pushes /\ pushes \in Nat
    BY ConstantsAssumption, PushedCountIs
       DEF TestStep, SetInitialData, RefreshAll, PushEvent, IInv, TypeInv, TypeOK
  <1>2. conn' = conn /\ loop' = loop /\ sent' = sent /\ refreshed' = refreshed
    BY DEF TestStep, SetInitialData, RefreshAll, PushEvent, connVars, historyVars
  <1>3. contractStage' = contractStage
    BY <1>2 DEF contractStage
  <1>4. CASE SetInitialData
    <2>1. /\ initialData < MaxVersion /\ initialData' = initialData + 1
          /\ publishing' = publishing /\ pushes' = pushes
      BY <1>4 DEF SetInitialData, historyVars
    <2>2. contractPushed' = contractPushed
      BY <2>1 DEF contractPushed
    <2>3. Contract!SetData
      BY <1>2, <1>3, <2>1, <2>2 DEF Contract!SetData
    <2> QED
      BY <2>3 DEF Contract!Next
  <1>5. CASE RefreshAll
    <2>1. publishing' = <<Put(initialData)>> /\ pushes' = pushes /\ initialData' = initialData
      BY <1>5 DEF RefreshAll, serviceVars
    <2>2. contractPushed' = contractPushed
      BY <1>1, <2>1, NextPushedCountIs
    <2> QED
      BY <1>2, <1>3, <2>1, <2>2 DEF Contract!contractVars
  <1>6. CASE PushEvent
    <2>1. pushes' = pushes + 1 /\ pushes < MaxPushes /\ initialData' = initialData
      BY <1>6 DEF PushEvent
    <2>2. CASE started
      <3>1. publishing' = <<Push(pushes')>>
        BY <1>6, <2>2 DEF PushEvent
      <3>2. contractPushed' = contractPushed
        BY <1>1, <2>1, <3>1, NextPushedCountIs
      <3> QED
        BY <1>2, <1>3, <2>1, <3>2 DEF Contract!contractVars
    <2>3. CASE ~started
      <3>1. publishing' = publishing
        BY <1>6, <2>3 DEF PushEvent
      <3>2. contractPushed' = contractPushed + 1
        BY <1>1, <2>1, <3>1, NextPushedCountIs
      <3>3. ~Contract!Started
        BY <2>3, StartedIs
      <3>4. Contract!PushEvent
        BY <1>1, <1>2, <1>3, <2>1, <3>2, <3>3 DEF Contract!PushEvent
      <3> QED
        BY <3>4 DEF Contract!Next
    <2> QED
      BY <2>2, <2>3
  <1> QED
    BY <1>4, <1>5, <1>6 DEF TestStep

\* An event goes to the streams that have room for it, and ends the others.
LEMMA PublishRefines ==
    ASSUME IInv, LoopPublish, NEW e \in Events, publishing = <<e>>
    PROVE  Contract!Publish(e)
  <1>1. loop = Idle /\ loop' = Idle /\ TrySend(Subscribed, publishing)
    BY DEF LoopPublish
  <1>2. \A c \in Conns : ~Replaying(c) /\ ~Replaying(c)'
    BY <1>1 DEF Replaying
  <1>3. \A c \in Conns : c \in Contract!Open <=> c \in Subscribed
    <2>1. \A c \in Conns : contractStage[c] = "open" <=> conn[c] \in {"subscribed", "leaving"}
      BY <1>2, StagesAre DEF Seen
    <2> QED
      BY <2>1 DEF Contract!Open, Subscribed
  <1> DEFINE slow == {c \in Subscribed : unread[c] = BufferSize}
  <1>4. /\ sent' = [c \in Conns |-> IF c \in Subscribed \ slow THEN sent[c] \o <<e>> ELSE sent[c]]
        /\ conn' = [c \in Conns |-> IF c \in slow THEN "closed" ELSE conn[c]]
    BY <1>1 DEF TrySend
  <1>5. slow \in SUBSET Contract!Open
    BY <1>3 DEF Subscribed
  <1>6. sent' = [c \in Conns |-> IF c \in Contract!Open \ slow THEN Append(sent[c], e)
                                                              ELSE sent[c]]
    <2>1. \A c \in Conns : sent[c] \o <<e>> = Append(sent[c], e)
      BY DEF IInv, TypeInv, TypeOK
    <2> HIDE DEF slow
    <2> QED
      BY <1>3, <1>4, <2>1
  <1>7. contractStage' = [c \in Conns |-> IF c \in slow THEN "over" ELSE contractStage[c]]
    <2> HIDE DEF slow
    <2>1. ASSUME NEW c \in Conns
          PROVE  Seen(c)' = IF c \in slow THEN "over" ELSE contractStage[c]
      <3>1. CASE c \in slow
        BY <1>2, <1>4, <3>1 DEF Seen
      <3>2. CASE c \notin slow
        BY <1>2, <1>4, <3>2, StagesAre DEF Seen
      <3> QED
        BY <3>1, <3>2
    <2> QED
      BY <2>1, StagesAre
  <1> HIDE DEF slow
  <1> QED
    BY <1>5, <1>6, <1>7 DEF Contract!Publish

LEMMA LoopPublishRefines ==
    ASSUME IInv, LoopPublish
    PROVE  Contract!Next
  <1>1. /\ publishing # <<>> /\ publishing' = <<>>
        /\ initialData' = initialData /\ pushes' = pushes
        /\ refreshed' = IF publishing[1].name = "put" THEN publishing[1].n ELSE refreshed
    BY DEF LoopPublish, serviceVars
  <1>2. contractPushed' = pushes
    BY <1>1, NextPushedCountIs
  <1>3. CASE /\ initialData \in 1..MaxVersion /\ publishing = <<Put(initialData)>>
             /\ refreshed' = initialData
    <2>1. contractPushed' = contractPushed
      BY <1>2, <1>3, PushedCountIs
    <2>2. Contract!Publish(Put(initialData))
      BY <1>3, EventsAre, PublishRefines
    <2>3. Contract!Publish(Contract!Put(initialData))
      BY <2>2 DEF Put, Contract!Put
    <2>4. initialData # 0
      BY <1>3
    <2>5. Contract!Refresh
      BY <1>1, <1>3, <2>1, <2>3, <2>4 DEF Contract!Refresh
    <2> QED
      BY <2>5 DEF Contract!Next
  <1>4. CASE /\ started /\ pushes \in 1..MaxPushes /\ publishing = <<Push(pushes)>>
             /\ refreshed' = refreshed
    <2>1. contractPushed = pushes - 1 /\ MaxPushes \in Nat
      BY <1>4, PushedCountIs, ConstantsAssumption
    <2>2. contractPushed < MaxPushes /\ contractPushed' = contractPushed + 1
      BY <1>2, <1>4, <2>1
    <2>3. Contract!Publish(Push(pushes))
      BY <1>4, EventsAre, PublishRefines
    <2>4. Contract!Publish(Contract!Push(contractPushed'))
      BY <1>2, <2>3 DEF Push, Contract!Push
    <2>5. Contract!Started
      BY <1>4, StartedIs
    <2>6. Contract!PushEvent
      BY <1>1, <1>4, <2>2, <2>4, <2>5 DEF Contract!PushEvent
    <2> QED
      BY <2>6 DEF Contract!Next
  <1> QED
    BY <1>1, <1>3, <1>4, PublishedIs

\* The end of a Replay opens the stream, which has room for what Replay sends.
LEMMA ReplayDrainRefines ==
    ASSUME IInv, ReplayDrain
    PROVE  Contract!Next
  <1> DEFINE batch == loop.put \o queuedEvents
  <1>0. PICK c \in Conns : c = loop.conn
    BY LoopIs DEF ReplayDrain, IInv
  <1>1. loop.at = "drain" /\ TrySend({c}, batch) /\ loop' = Idle
    BY <1>0 DEF ReplayDrain
  <1>2. /\ publishing' = publishing /\ initialData' = initialData /\ pushes' = pushes
        /\ refreshed' = refreshed
    BY DEF ReplayDrain
  <1>3. loop # Idle /\ loop.put \in Seq(Events) /\ Replaying(c)
    BY <1>0, <1>1, LoopIs DEF Replaying, IInv
  <1>4. /\ sent[c] = <<>> /\ unread[c] = 0 /\ conn[c] \in {"subscribed", "leaving"}
        /\ queuedEvents \in Seq(Events) /\ conn \in [Conns -> Stages]
        /\ sent \in [Conns -> Seq(Events)] /\ 0 # BufferSize
    BY <1>0, <1>3, ConstantsAssumption DEF IInv, FreshInv, TypeInv, TypeOK, Stages
  <1>5. contractPushed' = contractPushed
    BY <1>2 DEF contractPushed
  <1>6. \A d \in Conns : ~Replaying(d)' /\ (Replaying(d) <=> d = c)
    BY <1>0, <1>1, <1>3 DEF Replaying
  <1>7. batch \in Seq(Events)
    BY <1>3, <1>4
  <1> HIDE DEF batch
  <1>8. /\ sent' = [d \in Conns |-> IF d = c THEN batch ELSE sent[d]]
        /\ conn' = conn
    <2>1. {d \in {c} : unread[d] = BufferSize} = {}
      BY <1>4
    <2>2. /\ sent' = [d \in Conns |-> IF d \in {c} THEN sent[d] \o batch ELSE sent[d]]
          /\ conn' = [d \in Conns |-> conn[d]]
      BY <1>1, <2>1 DEF TrySend
    <2>3. sent[c] \o batch = batch
      BY <1>4, <1>7, NothingAdded
    <2> QED
      BY <1>4, <2>2, <2>3
  <1>9. contractStage[c] = "new" /\ contractStage' = [contractStage EXCEPT ![c] = "open"]
    <2>1. Seen(c) = "new" /\ Seen(c)' = "open"
      BY <1>3, <1>4, <1>6, <1>8 DEF Seen
    <2>2. \A d \in Conns \ {c} : Seen(d)' = Seen(d)
      BY <1>6, <1>8 DEF Seen
    <2> QED
      BY <1>3, <2>1, <2>2, StagesAre
  <1>10. sent' = [sent EXCEPT ![c] = batch]
    BY <1>4, <1>8
  <1>11. loop.put \in Contract!Opening
    <2>1. refreshed \in Nat /\ initialData \in Nat /\ refreshed <= initialData
      BY HistoryIs DEF IInv
    <2>2. CASE loop.put = <<>> /\ refreshed = 0
      <3>1. 0 \in refreshed..initialData
        BY <2>1, <2>2
      <3> QED
        BY <2>2, <3>1 DEF Contract!Opening
    <2>3. CASE \E v \in 1..initialData : v >= refreshed /\ loop.put = <<Put(v)>>
      <3>1. PICK v \in 1..initialData : v >= refreshed /\ loop.put = <<Put(v)>>
        BY <2>3
      <3>2. v \in refreshed..initialData /\ v # 0 /\ loop.put = <<Contract!Put(v)>>
        BY <2>1, <3>1 DEF Put, Contract!Put
      <3> QED
        BY <3>2 DEF Contract!Opening
    <2> QED
      BY <1>1, <2>2, <2>3 DEF IInv, DrainInv
  <1>12. queuedEvents = Contract!Kept
    <2>1. CASE started
      BY <2>1, StartedIs DEF IInv, QueueInv, Contract!Kept
    <2>2. CASE ~started
      <3>1. queuedEvents = Pushed /\ ~Contract!Started
        BY <2>2, StartedIs DEF IInv, QueueInv
      <3>2. contractPushed = pushes
        BY <2>2, PushedCountIs DEF IInv, PublishingInv
      <3> QED
        BY <3>1, <3>2 DEF Contract!Kept, Pushed, Push, Contract!Push
    <2> QED
      BY <2>1, <2>2
  <1>13. batch = loop.put \o Contract!Kept
    BY <1>12 DEF batch
  <1>14. Contract!Attach(c)
    BY <1>2, <1>5, <1>9, <1>10, <1>11, <1>13 DEF Contract!Attach
  <1> QED
    BY <1>14 DEF Contract!Next

\* A subscription whose Replay has not ended is not open yet.
LEMMA ReplayRefines ==
    ASSUME IInv, ReplayPut \/ \E c \in Conns : LoopSubscribe(c)
    PROVE  UNCHANGED Contract!contractVars
  <1>1. /\ publishing' = publishing /\ pushes' = pushes /\ initialData' = initialData
        /\ sent' = sent /\ refreshed' = refreshed
    BY DEF ReplayPut, LoopSubscribe, serviceVars, connVars, historyVars
  <1>2. contractPushed' = contractPushed
    BY <1>1 DEF contractPushed
  <1>3. CASE ReplayPut
    <2>1. /\ loop.at = "replay" /\ conn' = conn
          /\ loop' = [at |-> "drain", conn |-> loop.conn,
                      put |-> IF initialData = 0 THEN <<>> ELSE <<Put(initialData)>>]
      BY <1>3 DEF ReplayPut, connVars
    <2>2. loop # Idle /\ loop' # Idle /\ loop'.conn = loop.conn
      <3>1. loop'.at = "drain" /\ loop'.conn = loop.conn
        BY <2>1
      <3> QED
        BY <2>1, <3>1, LoopIs DEF IInv
    <2>3. \A c \in Conns : Seen(c)' = Seen(c)
      BY <2>1, <2>2 DEF Seen, Replaying
    <2> QED
      BY <1>1, <1>2, <2>3, SameStages DEF Contract!contractVars
  <1>4. ASSUME NEW c \in Conns, LoopSubscribe(c)
        PROVE  UNCHANGED Contract!contractVars
    <2>1. /\ loop = Idle /\ conn[c] = "connecting" /\ conn' = [conn EXCEPT ![c] = "subscribed"]
          /\ loop' = [at |-> "replay", conn |-> c]
      BY <1>4 DEF LoopSubscribe
    <2>2. loop' # Idle /\ loop'.conn = c
      <3>1. loop'.at = "replay" /\ loop'.conn = c
        BY <2>1
      <3> QED
        BY <3>1, LoopIs DEF IInv
    <2>3. \A d \in Conns \ {c} : conn'[d] = conn[d] /\ ~Replaying(d) /\ ~Replaying(d)'
      BY <2>1, <2>2 DEF Replaying, IInv, TypeInv, TypeOK
    <2>4. Seen(c) = "new" /\ Seen(c)' = "new"
      BY <2>1, <2>2 DEF Seen, Replaying
    <2>5. \A d \in Conns : Seen(d)' = Seen(d)
      BY <2>3, <2>4 DEF Seen
    <2> QED
      BY <1>1, <1>2, <2>5, SameStages DEF Contract!contractVars
  <1> QED
    BY <1>3, <1>4

\* A stream is over when the loop has ended its subscription.
LEMMA ConnStepRefines ==
    ASSUME IInv, NEW c \in Conns, ConnStep(c) \/ LoopUnsubscribe(c)
    PROVE  [Contract!Next]_(Contract!contractVars)
  <1>1. /\ publishing' = publishing /\ pushes' = pushes /\ initialData' = initialData
        /\ sent' = sent /\ refreshed' = refreshed /\ loop' = loop
    BY ConnStepIs
  <1>2. contractPushed' = contractPushed
    BY <1>1 DEF contractPushed
  <1>3. \A d \in Conns : Replaying(d)' <=> Replaying(d)
    BY <1>1 DEF Replaying
  <1>4. conn \in [Conns -> Stages]
    BY DEF IInv, TypeInv, TypeOK, Stages
  <1>5. CASE ConnStep(c)
    <2>1. \A d \in Conns \ {c} : conn'[d] = conn[d]
      BY <1>4, <1>5 DEF ConnStep, Connect, HandlerWrite, HangUp, HandlerLeave
    <2>2. \/ conn'[c] = conn[c]
          \/ conn[c] = "new" /\ conn'[c] = "connecting"
          \/ conn[c] = "subscribed" /\ conn'[c] = "leaving"
          \/ conn[c] = "closed" /\ conn'[c] = "gone"
      BY <1>4, <1>5 DEF ConnStep, Connect, HandlerWrite, HangUp, HandlerLeave
    <2>3. \A d \in Conns : Seen(d)' = Seen(d)
      BY <1>3, <2>1, <2>2 DEF Seen
    <2> QED
      BY <1>1, <1>2, <2>3, SameStages DEF Contract!contractVars
  <1>6. CASE LoopUnsubscribe(c)
    <2>1. loop = Idle /\ conn[c] = "leaving" /\ conn' = [conn EXCEPT ![c] = "gone"]
      BY <1>6 DEF LoopUnsubscribe
    <2>2. \A d \in Conns : ~Replaying(d)
      BY <2>1 DEF Replaying
    <2>3. Seen(c) = "open" /\ Seen(c)' = "over"
      BY <1>3, <1>4, <2>1, <2>2 DEF Seen
    <2>4. \A d \in Conns \ {c} : Seen(d)' = Seen(d)
      BY <1>3, <1>4, <2>1 DEF Seen
    <2>5. contractStage[c] = "open" /\ contractStage' = [contractStage EXCEPT ![c] = "over"]
      BY <2>3, <2>4, StagesAre
    <2>6. Contract!Leave(c)
      BY <1>1, <1>2, <2>5 DEF Contract!Leave
    <2> QED
      BY <2>6 DEF Contract!Next
  <1> QED
    BY <1>5, <1>6

LEMMA RefinementStep ==
    ASSUME IInv, [Next]_vars
    PROVE  [Contract!Next]_(Contract!contractVars)
  <1>1. CASE TestStep
    BY <1>1, TestStepRefines
  <1>2. CASE LoopPublish \/ ReplayDrain
    BY <1>2, LoopPublishRefines, ReplayDrainRefines
  <1>3. CASE ReplayPut \/ \E c \in Conns : LoopSubscribe(c)
    BY <1>3, ReplayRefines
  <1>4. ASSUME NEW c \in Conns, ConnStep(c) \/ LoopUnsubscribe(c)
        PROVE  [Contract!Next]_(Contract!contractVars)
    BY <1>4, ConnStepRefines
  <1>5. CASE UNCHANGED vars
    BY <1>5 DEF vars, serviceVars, connVars, historyVars, Contract!contractVars,
                contractStage, contractPushed
  <1> QED
    BY <1>1, <1>2, <1>3, <1>4, <1>5 DEF Next, LoopStep

LEMMA RefinementInit == Init => Contract!Init
  <1> SUFFICES ASSUME Init PROVE Contract!Init
    OBVIOUS
  <1>1. contractPushed = 0
    BY PushedCountIs DEF Init
  <1>2. \A c \in Conns : Seen(c) = "new"
    BY DEF Init, Seen
  <1> QED
    BY <1>1, <1>2, StagesAre DEF Init, Contract!Init

\* The loop makes the service one queue: between its opening and its end a stream
\* gets every event, all streams get them in one order, and each opens with data no
\* older than the last refresh, the first one also with what was queued
\* (mockld/streaming_service.go:115-175 and 212-241).
THEOREM Refinement == Spec => ImplementsContract
  <1>1. Spec => ImplementsContract
    BY RefinementInit, RefinementStep, InvariantHolds, PTL
       DEF Spec, ImplementsContract, Contract!Spec
  <1> QED
    BY <1>1

-------------------------------------------------------------------------------
(***************************************************************************)
(* What the contract promises, of the service.                             *)
(***************************************************************************)
ContractProofs == INSTANCE StreamingContractProofs WITH
    data <- initialData, pushed <- contractPushed, stage <- contractStage, stream <- sent

\* No client misses an event: what is pushed while its stream is open it is sent, once
\* and in order, and when its stream ends before that it has all that came before
\* (mockld/streaming_service.go:150-175 and 212-241).
THEOREM ClientsMissNothing == Spec => []Contract!StreamsHaveNoGaps
  <1>1. Contract!Init <=> ContractProofs!Init
    BY Zenon DEF Contract!Init, ContractProofs!Init
  <1>2. [Contract!Next]_(Contract!contractVars) <=>
            [ContractProofs!Next]_(ContractProofs!contractVars)
    BY Zenon
       DEF Contract!Next, ContractProofs!Next, Contract!contractVars,
           ContractProofs!contractVars, Contract!SetData, ContractProofs!SetData,
           Contract!Refresh, ContractProofs!Refresh, Contract!PushEvent,
           ContractProofs!PushEvent, Contract!Attach, ContractProofs!Attach,
           Contract!Leave, ContractProofs!Leave, Contract!Publish,
           ContractProofs!Publish, Contract!Open, ContractProofs!Open,
           Contract!Started, ContractProofs!Started, Contract!Opening,
           ContractProofs!Opening, Contract!Kept, ContractProofs!Kept,
           Contract!Put, ContractProofs!Put, Contract!Push, ContractProofs!Push
  <1>3. ContractProofs!Spec => []ContractProofs!StreamsHaveNoGaps
    BY ContractProofs!NoGaps
  <1>4. Contract!StreamsHaveNoGaps <=> ContractProofs!StreamsHaveNoGaps
    BY Zenon
       DEF Contract!StreamsHaveNoGaps, ContractProofs!StreamsHaveNoGaps,
           Contract!CarriesBetween, ContractProofs!CarriesBetween,
           Contract!IsPush, ContractProofs!IsPush, Contract!Push, ContractProofs!Push
  <1> QED
    BY <1>1, <1>2, <1>3, <1>4, Refinement, PTL
       DEF ImplementsContract, Contract!Spec, ContractProofs!Spec

-------------------------------------------------------------------------------
(***************************************************************************)
(* What it takes for the doc of PushEvent to hold.                         *)
(***************************************************************************)
Has(s, k) == \E i \in 1..Len(s) : s[i] = Push(k)

\* A client that the test knows of when it pushes an event has it, or the loop is about
\* to send it, or the Replay of the first stream is about to send all that was queued.
Gets(c, k) ==
    /\ conn[c] \notin {"new", "connecting"}
    /\ conn[c] \in {"subscribed", "leaving"} =>
          \/ Has(sent[c], k)
          \/ publishing = <<Push(k)>>
          \/ ~started /\ Replaying(c)

GetsInv == \A c \in Conns, k \in 1..pushes : c \in audience[k] => Gets(c, k)

\* The test pushes no event while a client that it knows of waits for the loop.
PushWaits == PushEvent => \A c \in Conns : conn[c] # "connecting"

LEMMA HasMore ==
    ASSUME NEW s \in Seq(Events), NEW t \in Seq(Events), NEW k, Has(s, k) \/ Has(t, k)
    PROVE  Has(s \o t, k)
  <1>1. /\ Len(s \o t) = Len(s) + Len(t) /\ Len(s) \in Nat /\ Len(t) \in Nat
        /\ \A i \in 1..Len(s) : (s \o t)[i] = s[i]
        /\ \A i \in 1..Len(t) : (s \o t)[Len(s) + i] = t[i]
    OBVIOUS
  <1>2. CASE Has(s, k)
    <2>1. PICK i \in 1..Len(s) : s[i] = Push(k)
      BY <1>2 DEF Has
    <2>2. i \in 1..Len(s \o t) /\ (s \o t)[i] = Push(k)
      BY <1>1, <2>1
    <2> QED
      BY <2>2 DEF Has
  <1>3. CASE Has(t, k)
    <2>1. PICK i \in 1..Len(t) : t[i] = Push(k)
      BY <1>3 DEF Has
    <2>2. Len(s) + i \in 1..Len(s \o t) /\ (s \o t)[Len(s) + i] = Push(k)
      BY <1>1, <2>1
    <2> QED
      BY <2>2 DEF Has
  <1> QED
    BY <1>2, <1>3

LEMMA HasOne == \A k : Has(<<Push(k)>>, k)
  <1> TAKE k
  <1>1. 1 \in 1..Len(<<Push(k)>>) /\ <<Push(k)>>[1] = Push(k)
    OBVIOUS
  <1> QED
    BY <1>1 DEF Has

LEMMA GetsStep ==
    ASSUME IInv, GetsInv, [Next]_vars, [PushWaits]_vars
    PROVE  GetsInv'
  <1> USE DEF IInv
  <1>1. /\ conn \in [Conns -> Stages] /\ sent \in [Conns -> Seq(Events)]
        /\ pushes \in Nat /\ pushes <= MaxPushes
        /\ audience \in Seq(SUBSET Conns) /\ Len(audience) = pushes
        /\ publishing \in Seq(Events) /\ queuedEvents \in Seq(Events) /\ started \in BOOLEAN
    BY ConstantsAssumption DEF TypeInv, TypeOK, Stages
  <1>2. CASE /\ UNCHANGED <<pushes, audience, sent, conn, loop, started>>
             /\ publishing = <<>> \/ publishing' = publishing
    <2>1. \A k : publishing = <<Push(k)>> => publishing' = <<Push(k)>>
      BY <1>2
    <2> QED
      BY <1>2, <2>1 DEF GetsInv, Gets, Replaying, Has
  <1>3. CASE SetInitialData \/ RefreshAll
    <2>1. /\ UNCHANGED <<pushes, audience, sent, conn, loop, started>>
          /\ publishing = <<>> \/ publishing' = publishing
      BY <1>3 DEF SetInitialData, RefreshAll, serviceVars, connVars, historyVars
    <2> QED
      BY <1>2, <2>1
  <1>4. CASE PushEvent
    <2>1. /\ publishing = <<>> /\ pushes' = pushes + 1
          /\ audience' = Append(audience, {c \in Conns : conn[c] # "new"})
          /\ started => publishing' = <<Push(pushes')>>
          /\ UNCHANGED <<started, loop, sent, conn>>
      BY <1>4 DEF PushEvent, connVars
    <2>2. \A c \in Conns : conn[c] # "connecting"
      <3>1. pushes' # pushes
        BY <1>1, <2>1
      <3>2. vars' # vars
        BY <3>1 DEF vars, historyVars
      <3> QED
        BY <1>4, <3>2 DEF PushWaits
    <2>3. /\ \A k \in 1..pushes : audience'[k] = audience[k]
          /\ audience'[pushes + 1] = {c \in Conns : conn[c] # "new"}
          /\ \A k \in 1..pushes' : k \in 1..pushes \/ k = pushes + 1
      BY <1>1, <2>1
    <2>4. ASSUME NEW c \in Conns, NEW k \in 1..pushes, c \in audience[k]
          PROVE  Gets(c, k)'
      <3>1. Gets(c, k) /\ publishing # <<Push(k)>>
        BY <2>1, <2>4 DEF GetsInv
      <3> QED
        BY <2>1, <3>1 DEF Gets, Replaying, Has
    <2>5. PICK last \in 1..pushes' : last = pushes + 1
      BY <1>1, <2>1
    <2>6. ASSUME NEW c \in Conns, conn[c] # "new"
          PROVE  Gets(c, last)'
      <3>1. conn'[c] \notin {"new", "connecting"}
        BY <2>1, <2>2, <2>6
      <3>2. CASE started
        <4>1. publishing' = <<Push(last)>>
          BY <2>1, <2>5, <3>2
        <4> QED
          BY <3>1, <4>1 DEF Gets
      <3>3. CASE ~started
        <4>1. Replaying(c)
          BY <3>1, <3>3, <2>1 DEF FreshInv
        <4> QED
          BY <2>1, <3>1, <3>3, <4>1 DEF Gets, Replaying
      <3> QED
        BY <3>2, <3>3
    <2>7. ASSUME NEW c \in Conns, NEW k \in 1..pushes', c \in audience'[k]
          PROVE  Gets(c, k)'
      <3>1. CASE k \in 1..pushes
        BY <2>3, <2>4, <2>7, <3>1
      <3>2. CASE k = last
        BY <2>3, <2>5, <2>6, <2>7, <3>2
      <3> QED
        BY <2>3, <2>5, <3>1, <3>2
    <2> QED
      BY <2>7 DEF GetsInv
  <1>5. CASE LoopPublish
    <2>1. /\ loop = Idle /\ publishing # <<>> /\ TrySend(Subscribed, publishing)
          /\ UNCHANGED <<pushes, audience, loop, started>>
      BY <1>5 DEF LoopPublish, serviceVars
    <2>2. Subscribed \in SUBSET Conns
      BY DEF Subscribed
    <2>3. \A c \in Conns : Tried(c, Subscribed, publishing)
      BY <1>1, <2>1, <2>2, TrySendIs
    <2>4. ASSUME NEW c \in Conns, NEW k \in 1..pushes, c \in audience[k]
          PROVE  Gets(c, k)'
      <3>1. Gets(c, k) /\ ~Replaying(c)
        BY <2>1, <2>4 DEF GetsInv, Replaying
      <3>2. CASE c \in Subscribed /\ sent'[c] = sent[c] \o publishing /\ conn'[c] = conn[c]
        <4>1. Has(sent[c], k) \/ publishing = <<Push(k)>>
          BY <3>1, <3>2 DEF Gets, Subscribed
        <4>2. Has(sent[c], k) \/ Has(publishing, k)
          BY <4>1, HasOne
        <4>3. Has(sent[c] \o publishing, k)
          BY <1>1, <4>2, HasMore
        <4>4. Has(sent'[c], k)
          BY <3>2, <4>3
        <4> QED
          BY <3>1, <3>2, <4>4 DEF Gets, Has
      <3>3. CASE conn'[c] = "closed"
        BY <3>3 DEF Gets
      <3>4. CASE c \notin Subscribed /\ conn'[c] = conn[c]
        BY <3>1, <3>4 DEF Gets, Subscribed
      <3> QED
        BY <2>3, <3>2, <3>3, <3>4 DEF Tried
    <2> QED
      BY <2>1, <2>4 DEF GetsInv
  <1>6. CASE ReplayPut
    <2>1. /\ loop # Idle /\ loop' # Idle /\ loop'.conn = loop.conn
          /\ UNCHANGED <<pushes, audience, sent, conn, publishing, started>>
      BY <1>6 DEF ReplayPut, Idle, serviceVars, connVars, historyVars
    <2> QED
      BY <2>1 DEF GetsInv, Gets, Replaying, Has
  <1>7. CASE ReplayDrain
    <2>1. /\ loop.at = "drain" /\ started' = TRUE /\ loop' = Idle
          /\ TrySend({loop.conn}, loop.put \o queuedEvents)
          /\ UNCHANGED <<pushes, audience, publishing>>
      BY <1>7 DEF ReplayDrain
    <2>2. /\ loop # Idle /\ loop.conn \in Conns /\ loop.put \in Seq(Events)
          /\ loop.put \o queuedEvents \in Seq(Events)
      BY <1>1, <2>1, LoopIs
    <2>3. \A c \in Conns : Tried(c, {loop.conn}, loop.put \o queuedEvents)
      BY <1>1, <2>1, <2>2, TrySendIs
    <2>4. ASSUME NEW c \in Conns, NEW k \in 1..pushes, c \in audience[k]
          PROVE  Gets(c, k)'
      <3>1. Gets(c, k)
        BY <2>4 DEF GetsInv
      <3>2. CASE c # loop.conn
        <4>1. sent'[c] = sent[c] /\ conn'[c] = conn[c] /\ ~Replaying(c)
          BY <2>3, <3>2 DEF Tried, Replaying
        <4> QED
          BY <2>1, <3>1, <4>1 DEF Gets, Has
      <3>3. CASE c = loop.conn /\ conn'[c] = "closed"
        BY <3>3 DEF Gets
      <3>4. CASE /\ c = loop.conn /\ conn'[c] = conn[c]
                 /\ sent'[c] = sent[c] \o (loop.put \o queuedEvents)
        <4>1. ~started => queuedEvents = Pushed
          BY DEF QueueInv
        <4>2. Has(Pushed, k)
          BY <1>1, PushedIs DEF Has
        <4>3. ~started => Has(loop.put \o queuedEvents, k)
          BY <1>1, <2>2, <4>1, <4>2, HasMore
        <4>4. Has(sent[c], k) \/ ~started => Has(sent[c] \o (loop.put \o queuedEvents), k)
          BY <1>1, <2>2, <4>3, HasMore
        <4>5. Has(sent[c], k) \/ ~started => Has(sent'[c], k)
          BY <3>4, <4>4
        <4> QED
          BY <2>1, <3>1, <3>4, <4>5 DEF Gets, Has
      <3> QED
        BY <2>3, <3>2, <3>3, <3>4 DEF Tried
    <2> QED
      BY <2>1, <2>4 DEF GetsInv
  <1>8. ASSUME NEW d \in Conns, LoopSubscribe(d) PROVE GetsInv'
    <2>1. /\ loop = Idle /\ conn[d] = "connecting" /\ conn' = [conn EXCEPT ![d] = "subscribed"]
          /\ UNCHANGED <<pushes, audience, sent, publishing, started>>
      BY <1>8 DEF LoopSubscribe, serviceVars, historyVars
    <2>2. \A c \in Conns : ~Replaying(c) /\ (c # d => conn'[c] = conn[c])
      BY <1>1, <2>1 DEF Replaying
    <2>3. ASSUME NEW c \in Conns, NEW k \in 1..pushes, c \in audience[k]
          PROVE  Gets(c, k)'
      <3>1. Gets(c, k) /\ c # d
        BY <2>1, <2>3 DEF GetsInv, Gets
      <3> QED
        BY <2>1, <2>2, <3>1 DEF Gets, Has
    <2> QED
      BY <2>1, <2>3 DEF GetsInv
  <1>9. ASSUME NEW d \in Conns, ConnStep(d) \/ LoopUnsubscribe(d) PROVE GetsInv'
    <2>1. /\ UNCHANGED <<pushes, audience, sent, publishing, started, loop>>
          /\ \A c \in Conns : Moves(c)
      BY <1>9, ConnStepIs
    <2>2. ASSUME NEW c \in Conns, NEW k \in 1..pushes, c \in audience[k]
          PROVE  Gets(c, k)'
      <3>1. Gets(c, k)
        BY <2>2 DEF GetsInv
      <3>2. /\ conn'[c] \notin {"new", "connecting"}
            /\ conn'[c] \in {"subscribed", "leaving"} => conn[c] \in {"subscribed", "leaving"}
        BY <2>1, <3>1 DEF Moves, Gets
      <3> QED
        BY <2>1, <3>1, <3>2 DEF Gets, Replaying, Has
    <2> QED
      BY <2>1, <2>2 DEF GetsInv
  <1>10. CASE UNCHANGED vars
    <2>1. /\ UNCHANGED <<pushes, audience, sent, conn, loop, started>>
          /\ publishing' = publishing
      BY <1>10 DEF vars, serviceVars, connVars, historyVars
    <2> QED
      BY <1>2, <2>1
  <1> QED
    BY <1>3, <1>4, <1>5, <1>6, <1>7, <1>8, <1>9, <1>10 DEF Next, TestStep, LoopStep

\* The doc of PushEvent is right in every run in which the test pushes no event between
\* the announcement of a connection and the loop's taking of its subscription
\* (mockld/streaming_service.go:156-175): that is the only gap.
THEOREM PushReachesThoseSubscribed ==
    Spec /\ [][PushWaits]_vars => []ConnectedClientsGetPush
  <1>1. Init => GetsInv
    BY DEF Init, GetsInv
  <1>2. IInv /\ GetsInv /\ [Next]_vars /\ [PushWaits]_vars => GetsInv'
    BY GetsStep
  <1>3. GetsInv => ConnectedClientsGetPush
    BY DEF GetsInv, Gets, Has, ConnectedClientsGetPush, Replaying
  <1> QED
    BY <1>1, <1>2, <1>3, InvariantHolds, PTL DEF Spec
===============================================================================

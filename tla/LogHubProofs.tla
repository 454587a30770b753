---------------------------- MODULE LogHubProofs ----------------------------
(***************************************************************************)
(* Theorems about the hub on its own: whoever publishes and whoever comes  *)
(* and goes, nobody sends on a closed channel, only a viewer with a full   *)
(* channel to read misses an event, and the rest arrives in the order sent.*)
(***************************************************************************)
EXTENDS LogHub, SequenceTheorems, TLAPS

HubTypeOK ==
  /\ subs \subseteq Viewer /\ visit \subseteq Viewer
  /\ chan \in [Viewer -> Seq(Publisher)]
  /\ \A s \in Viewer : Len(chan[s]) <= Capacity
  /\ hubMu \in Publisher \cup {None}
  /\ viewing \in [Viewer -> {"away", "watching", "leaving", "closing", "gone"}]
  /\ got \in [Viewer -> Seq(Publisher)] /\ sent \in [Viewer -> Seq(Publisher)]
  /\ missed \in [Viewer -> SUBSET Nat]

(* cancel() lets go of the channel before it closes it, and cannot do so   *)
(* while a Publish goes round.                                             *)
Subscriptions ==
  /\ \A s \in subs : viewing[s] \in {"watching", "leaving"}
  /\ visit \subseteq subs
  /\ hubMu = None => visit = {}

(* OnlySlowViewersMiss, with the length of the stream counted.             *)
Backlog == \A s \in Viewer : missed[s] # {} => Len(got[s]) + Len(chan[s]) >= Capacity

HubInv == HubTypeOK /\ Subscriptions /\ Backlog

LEMMA HubInit0 == HubInit => HubInv
BY HubAssumption, EmptySeq, SMT DEF HubInit, HubInv, HubTypeOK, Subscriptions, Backlog

(* What the steps do to a channel and to what has been sent to a viewer.   *)
LEMMA AppendLength ==
  ASSUME NEW S, NEW q \in Seq(S), NEW e \in S
  PROVE  Append(q, e) \in Seq(S) /\ Len(Append(q, e)) = Len(q) + 1
BY AppendProperties

LEMMA TailLength ==
  ASSUME NEW S, NEW q \in Seq(S), q # << >>
  PROVE  /\ Tail(q) \in Seq(S) /\ Head(q) \in S
         /\ Len(q) \in Nat \ {0} /\ Len(Tail(q)) = Len(q) - 1
BY HeadTailProperties, EmptySeq, LenProperties

LEMMA HubStep == HubInv /\ [HubNext]_hubVars => HubInv'
<1> SUFFICES ASSUME HubInv, [HubNext]_hubVars PROVE HubInv'
  OBVIOUS
<1> USE HubAssumption DEF HubInv, HubTypeOK, Subscriptions, Backlog
<1>len. \A s \in Viewer : Len(chan[s]) \in Nat /\ Len(got[s]) \in Nat
  BY LenProperties
<1>1. ASSUME NEW p \in Publisher, NEW n \in Name, Lock(p, n) PROVE HubInv'
  <2>1. \A s \in Viewer : Append(sent[s], p) \in Seq(Publisher)
    BY AppendLength
  <2>. QED
    BY <1>1, <2>1, SMT DEF Lock
<1>2. ASSUME NEW p \in Publisher, NEW s \in Viewer, Deliver(p, s) PROVE HubInv'
  <2>1. /\ chan' = [chan EXCEPT ![s] = Append(chan[s], p)] /\ Len(chan[s]) < Capacity
        /\ visit' \subseteq visit /\ hubMu # None
        /\ UNCHANGED <<subs, hubMu, viewing, got, sent, missed>>
    BY <1>2 DEF Deliver, Offer
  <2>2. Append(chan[s], p) \in Seq(Publisher) /\ Len(Append(chan[s], p)) = Len(chan[s]) + 1
    BY AppendLength
  <2>3. /\ chan' \in [Viewer -> Seq(Publisher)]
        /\ \A t \in Viewer : Len(chan'[t]) <= Capacity /\ Len(chan'[t]) >= Len(chan[t])
    BY <2>1, <2>2, <1>len
  <2>4. \A t \in Viewer : Len(chan'[t]) \in Nat
    BY <2>3, LenProperties
  <2>. QED
    BY <2>1, <2>3, <2>4, <1>len
<1>3. ASSUME NEW p \in Publisher, NEW s \in Viewer, Drop(p, s) PROVE HubInv'
  BY <1>3, <1>len, SMT DEF Drop, Offer
<1>4. ASSUME NEW p \in Publisher, Unlock(p) PROVE HubInv'
  BY <1>4, SMT DEF Unlock
<1>5. ASSUME NEW s \in Viewer, Subscribe(s) PROVE HubInv'
  BY <1>5, SMT DEF Subscribe, Move
<1>6. ASSUME NEW s \in Viewer, Receive(s) PROVE HubInv'
  <2>1. /\ chan[s] # << >>
        /\ got' = [got EXCEPT ![s] = Append(got[s], Head(chan[s]))]
        /\ chan' = [chan EXCEPT ![s] = Tail(chan[s])]
        /\ UNCHANGED <<subs, hubMu, visit, viewing, sent, missed>>
    BY <1>6 DEF Receive
  <2>2. /\ Tail(chan[s]) \in Seq(Publisher) /\ Head(chan[s]) \in Publisher
        /\ Len(chan[s]) \in Nat \ {0} /\ Len(Tail(chan[s])) = Len(chan[s]) - 1
    BY <2>1, TailLength
  <2>3. /\ Append(got[s], Head(chan[s])) \in Seq(Publisher)
        /\ Len(Append(got[s], Head(chan[s]))) = Len(got[s]) + 1
    BY <2>2, AppendLength
  <2>4. /\ chan' \in [Viewer -> Seq(Publisher)] /\ got' \in [Viewer -> Seq(Publisher)]
        /\ \A t \in Viewer : /\ Len(chan'[t]) <= Capacity
                             /\ Len(got'[t]) + Len(chan'[t]) = Len(got[t]) + Len(chan[t])
    <3>1. chan' \in [Viewer -> Seq(Publisher)] /\ got' \in [Viewer -> Seq(Publisher)]
      BY <2>1, <2>2, <2>3
    <3>2. /\ Len(chan'[s]) = Len(chan[s]) - 1 /\ Len(got'[s]) = Len(got[s]) + 1
          /\ \A t \in Viewer \ {s} : chan'[t] = chan[t] /\ got'[t] = got[t]
      BY <2>1, <2>2, <2>3, Zenon
    <3>3. Len(chan[s]) <= Capacity /\ Len(got[s]) \in Nat /\ Len(chan[s]) \in Nat
      BY <1>len
    <3>4. ASSUME NEW t \in Viewer
          PROVE  /\ Len(chan'[t]) <= Capacity
                 /\ Len(got'[t]) + Len(chan'[t]) = Len(got[t]) + Len(chan[t])
      <4>1. CASE t = s
        <5>1. Len(chan[s]) - 1 <= Capacity
          BY <3>3, <2>2
        <5>2. (Len(got[s]) + 1) + (Len(chan[s]) - 1) = Len(got[s]) + Len(chan[s])
          BY <3>3
        <5>. QED
          BY <4>1, <3>2, <5>1, <5>2, Zenon
      <4>2. CASE t # s
        BY <4>2, <3>2
      <4>. QED
        BY <4>1, <4>2
    <3>. QED
      BY <3>1, <3>4
  <2>. QED
    BY <2>1, <2>4
<1>7. ASSUME NEW s \in Viewer, Leave(s) PROVE HubInv'
  BY <1>7, SMT DEF Leave, Move
<1>8. ASSUME NEW s \in Viewer, Unsubscribe(s) PROVE HubInv'
  BY <1>8, SMT DEF Unsubscribe, Move
<1>9. ASSUME NEW s \in Viewer, Close(s) PROVE HubInv'
  BY <1>9, SMT DEF Close, Move
<1>10. CASE UNCHANGED hubVars
  BY <1>10, SMT DEF hubVars
<1>. QED
  BY <1>1, <1>2, <1>3, <1>4, <1>5, <1>6, <1>7, <1>8, <1>9, <1>10
  DEF HubNext, Publishing, Watching

(* What happens to a selection when its source, or the selection, grows.   *)
LEMMA PicksFromLonger ==
  ASSUME NEW S, NEW t \in Seq(S), NEW q \in Seq(S), NEW e \in S,
         NEW K \in SUBSET (1 .. Len(q)), Picks(t, q, K)
  PROVE  Picks(t, Append(q, e), K)
<1>1. \A k \in K : Append(q, e)[k] = q[k]
  BY AppendProperties
<1> PICK pos \in [1 .. Len(t) -> K] :
      /\ \A i, j \in 1 .. Len(t) : i < j => pos[i] < pos[j]
      /\ \A k \in K : \E i \in 1 .. Len(t) : pos[i] = k
      /\ \A i \in 1 .. Len(t) : t[i] = q[pos[i]]
  BY DEF Picks
<1>2. \A i \in 1 .. Len(t) : t[i] = Append(q, e)[pos[i]]
  BY <1>1
<1>. QED
  <2> SUFFICES \E p \in [1 .. Len(t) -> K] :
        /\ \A i, j \in 1 .. Len(t) : i < j => p[i] < p[j]
        /\ \A k \in K : \E i \in 1 .. Len(t) : p[i] = k
        /\ \A i \in 1 .. Len(t) : t[i] = Append(q, e)[p[i]]
    BY DEF Picks
  <2> WITNESS pos \in [1 .. Len(t) -> K]
  <2>. QED
    BY <1>2

LEMMA PicksOneMore ==
  ASSUME NEW S, NEW t \in Seq(S), NEW q \in Seq(S), NEW K \in SUBSET (1 .. Len(q)),
         Picks(t, q, K), NEW m \in 1 .. Len(q), \A k \in K : k < m
  PROVE  Picks(Append(t, q[m]), q, K \cup {m})
<1>1. Len(t) \in Nat /\ Len(q) \in Nat /\ q[m] \in S
  BY LenProperties, ElementOfSeq
<1> PICK n : n = Len(t)
  OBVIOUS
<1> PICK pos \in [1 .. n -> K] :
      /\ \A i, j \in 1 .. n : i < j => pos[i] < pos[j]
      /\ \A k \in K : \E i \in 1 .. n : pos[i] = k
      /\ \A i \in 1 .. n : t[i] = q[pos[i]]
  BY DEF Picks
<1> PICK u : u = Append(t, q[m])
  OBVIOUS
<1>2. Len(u) = n + 1 /\ u[n + 1] = q[m] /\ \A i \in 1 .. n : u[i] = t[i]
  BY <1>1, AppendProperties
<1>n. /\ n \in Nat /\ n + 1 \in 1 .. Len(u)
      /\ \A i \in 1 .. Len(u) : i = n + 1 \/ i \in 1 .. n
      /\ \A i \in 1 .. n : i \in 1 .. Len(u) /\ i # n + 1
  BY <1>1, <1>2
<1> PICK longer : longer = [i \in 1 .. Len(u) |-> IF i = n + 1 THEN m ELSE pos[i]]
  OBVIOUS
<1>3. longer[n + 1] = m /\ \A i \in 1 .. n : longer[i] = pos[i]
  BY <1>n
<1>4. longer \in [1 .. Len(u) -> K \cup {m}]
  BY <1>n
<1>5. ASSUME NEW i \in 1 .. Len(u), NEW j \in 1 .. Len(u), i < j
      PROVE  longer[i] < longer[j]
  <2>1. i \in 1 .. n
    BY <1>n, <1>2, <1>5
  <2>2. CASE j = n + 1
    BY <2>1, <2>2, <1>3
  <2>3. CASE j \in 1 .. n
    BY <2>1, <2>3, <1>3, <1>5
  <2>. QED
    BY <2>2, <2>3, <1>n
<1>6. ASSUME NEW k \in K \cup {m} PROVE \E i \in 1 .. Len(u) : longer[i] = k
  BY <1>n, <1>3
<1>7. ASSUME NEW i \in 1 .. Len(u) PROVE u[i] = q[longer[i]]
  BY <1>n, <1>2, <1>3
<1>8. Picks(u, q, K \cup {m})
  <2> SUFFICES \E p \in [1 .. Len(u) -> K \cup {m}] :
        /\ \A i, j \in 1 .. Len(u) : i < j => p[i] < p[j]
        /\ \A k \in K \cup {m} : \E i \in 1 .. Len(u) : p[i] = k
        /\ \A i \in 1 .. Len(u) : u[i] = q[p[i]]
    BY DEF Picks
  <2> USE <1>4
  <2> WITNESS longer \in [1 .. Len(u) -> K \cup {m}]
  <2>. QED
    BY <1>5, <1>6, <1>7
<1>. QED
  BY <1>8

LEMMA PicksAll == ASSUME NEW S, NEW q \in Seq(S) PROVE Picks(q, q, 1 .. Len(q))
<1> SUFFICES \E p \in [1 .. Len(q) -> 1 .. Len(q)] :
      /\ \A i, j \in 1 .. Len(q) : i < j => p[i] < p[j]
      /\ \A k \in 1 .. Len(q) : \E i \in 1 .. Len(q) : p[i] = k
      /\ \A i \in 1 .. Len(q) : q[i] = q[p[i]]
  BY DEF Picks
<1> WITNESS [i \in 1 .. Len(q) |-> i] \in [1 .. Len(q) -> 1 .. Len(q)]
<1>. QED
  OBVIOUS

(* A stream grows at its end, and is the same whoever holds an event of it.*)
LEMMA StreamGrows ==
  ASSUME NEW S, NEW g \in Seq(S), NEW c \in Seq(S), NEW e \in S
  PROVE  g \o Append(c, e) = Append(g \o c, e)
<1>1. Append(c, e) = c \o <<e>> /\ Append(g \o c, e) = (g \o c) \o <<e>>
  BY ConcatProperties, AppendIsConcat
<1>. QED
  BY <1>1, ConcatAssociative

LEMMA StreamMoves ==
  ASSUME NEW S, NEW g \in Seq(S), NEW c \in Seq(S), c # << >>
  PROVE  Append(g, Head(c)) \o Tail(c) = g \o c
<1>1. Head(c) = c[1] /\ Head(c) \in S /\ Len(c) \in Nat \ {0} /\ Len(g) \in Nat
  BY HeadTailProperties, EmptySeq, LenProperties
<1>2. /\ Append(g, Head(c)) \in Seq(S) /\ Len(Append(g, Head(c))) = Len(g) + 1
      /\ Append(g, Head(c))[Len(g) + 1] = c[1]
      /\ \A i \in 1 .. Len(g) : Append(g, Head(c))[i] = g[i]
  BY <1>1, AppendProperties
<1>3. /\ Tail(c) \in Seq(S) /\ Len(Tail(c)) = Len(c) - 1
      /\ \A i \in 1 .. Len(Tail(c)) : Tail(c)[i] = c[i + 1]
  BY HeadTailProperties
<1> DEFINE h == Append(g, Head(c))  l == Tail(c)
<1> HIDE DEF h, l
<1>4. /\ h \o l \in Seq(S) /\ g \o c \in Seq(S)
      /\ Len(h \o l) = Len(g) + Len(c) /\ Len(g \o c) = Len(g) + Len(c)
  BY <1>1, <1>2, <1>3, ConcatProperties DEF h, l
<1>5. ASSUME NEW i \in 1 .. (Len(g) + Len(c)) PROVE (h \o l)[i] = (g \o c)[i]
  <2>1. (h \o l)[i] = IF i <= Len(g) + 1 THEN h[i] ELSE l[i - (Len(g) + 1)]
    BY <1>1, <1>2, <1>3, ConcatProperties DEF h, l
  <2>2. (g \o c)[i] = IF i <= Len(g) THEN g[i] ELSE c[i - Len(g)]
    BY ConcatProperties
  <2>3. CASE i <= Len(g)
    BY <2>1, <2>2, <2>3, <1>1, <1>2 DEF h
  <2>4. CASE i = Len(g) + 1
    BY <2>1, <2>2, <2>4, <1>1, <1>2 DEF h
  <2>5. CASE i > Len(g) + 1
    <3>1. i - (Len(g) + 1) \in 1 .. Len(l) /\ (i - (Len(g) + 1)) + 1 = i - Len(g)
      BY <1>1, <1>3, <2>5 DEF l
    <3>2. l[i - (Len(g) + 1)] = c[i - Len(g)]
      BY <1>3, <3>1 DEF l
    <3>. QED
      BY <2>1, <2>2, <2>5, <3>2, <1>1
  <2>6. i <= Len(g) \/ i = Len(g) + 1 \/ i > Len(g) + 1
    BY <1>1
  <2>. QED
    BY <2>3, <2>4, <2>5, <2>6, Zenon
<1>6. h \o l = g \o c
  BY <1>4, <1>5, SeqEqual
<1>. QED
  BY <1>6 DEF h, l
-----------------------------------------------------------------------------
(* The positions that were missed exist, and an event that has still to be *)
(* offered is the last one that was sent, and not missed.                  *)
Positions ==
  \A s \in Viewer :
    /\ missed[s] \subseteq 1 .. Len(sent[s])
    /\ s \in visit => /\ Len(sent[s]) >= 1 /\ Len(sent[s]) \notin missed[s]
                      /\ sent[s][Len(sent[s])] = hubMu

StreamInv == Positions /\ StreamIsFaithful

LEMMA StreamInit == HubInit => StreamInv
<1> SUFFICES ASSUME HubInit PROVE StreamInv
  OBVIOUS
<1>1. Positions
  BY DEF HubInit, Positions
<1>2. ASSUME NEW s \in Viewer PROVE Picks(Stream(s), sent[s], Kept(s))
  <2>1. /\ << >> \in Seq(Publisher) /\ Len(<< >>) = 0
        /\ got[s] = << >> /\ chan[s] = << >> /\ sent[s] = << >> /\ missed[s] = {} /\ visit = {}
    BY EmptySeq DEF HubInit
  <2>2. Stream(s) = << >>
    BY <2>1, ConcatEmptySeq DEF Stream
  <2>3. Kept(s) = 1 .. Len(<< >>)
    BY <2>1 DEF Kept, Pending
  <2>. QED
    BY <2>1, <2>2, <2>3, PicksAll
<1>. QED
  BY <1>1, <1>2 DEF StreamInv, StreamIsFaithful

(* What concerns a viewer alone.                                           *)
PositionsOf(s) == /\ missed[s] \subseteq 1 .. Len(sent[s])
                  /\ s \in visit => /\ Len(sent[s]) >= 1 /\ Len(sent[s]) \notin missed[s]
                                    /\ sent[s][Len(sent[s])] = hubMu

FaithfulTo(s) == PositionsOf(s) /\ Picks(Stream(s), sent[s], Kept(s))

LEMMA StreamSplit == StreamInv <=> \A s \in Viewer : FaithfulTo(s)
BY DEF StreamInv, Positions, StreamIsFaithful, FaithfulTo, PositionsOf

LEMMA StreamSame ==
  ASSUME NEW s \in Viewer, FaithfulTo(s), Stream(s)' = Stream(s), sent'[s] = sent[s],
         missed'[s] = missed[s], s \in visit' <=> s \in visit,
         s \in visit => hubMu' = hubMu
  PROVE  FaithfulTo(s)'
BY DEF FaithfulTo, PositionsOf, Kept, Pending

LEMMA LockKeepsStream ==
  ASSUME HubInv, NEW p \in Publisher, NEW n \in Name, Lock(p, n),
         NEW s \in Viewer, FaithfulTo(s)
  PROVE  FaithfulTo(s)'
<1>1. /\ visit = {} /\ sent[s] \in Seq(Publisher) /\ Len(sent[s]) \in Nat
      /\ got[s] \o chan[s] \in Seq(Publisher)
  BY LenProperties, ConcatProperties DEF HubInv, HubTypeOK, Subscriptions, Lock
<1>2. Stream(s)' = Stream(s) /\ missed'[s] = missed[s]
  BY DEF Lock, Stream
<1>3. missed[s] \subseteq 1 .. Len(sent[s])
  BY DEF FaithfulTo, PositionsOf
<1>4. CASE s \in visit'
  <2>1. sent'[s] = Append(sent[s], p)
    BY <1>4 DEF Lock
  <2>2. Len(sent'[s]) = Len(sent[s]) + 1
    BY <1>1, <2>1, AppendProperties
  <2>3. PositionsOf(s)'
    <3>1. sent'[s][Len(sent'[s])] = hubMu'
      BY <1>1, <2>1, <2>2, AppendProperties DEF Lock
    <3>. QED
      BY <1>1, <1>2, <1>3, <2>2, <3>1 DEF PositionsOf
  <2>4. Kept(s) = (1 .. Len(sent[s])) \ missed[s]
    BY <1>1 DEF Kept, Pending
  <2>5. Kept(s)' = (1 .. Len(sent'[s])) \ (missed'[s] \cup {Len(sent'[s])})
    BY <1>4 DEF Kept, Pending
  <2>6. Kept(s)' = Kept(s)
    BY <1>1, <1>2, <1>3, <2>2, <2>4, <2>5
  <2>7. Picks(Stream(s), Append(sent[s], p), Kept(s))
    BY <1>1, <2>4, PicksFromLonger DEF FaithfulTo, Stream
  <2>. QED
    BY <1>2, <2>1, <2>3, <2>6, <2>7 DEF FaithfulTo
<1>5. CASE s \notin visit'
  <2>1. sent'[s] = sent[s]
    BY <1>5 DEF Lock
  <2>. QED
    BY <1>1, <1>2, <1>5, <2>1, StreamSame
<1>. QED
  BY <1>4, <1>5

(* The event in hand goes to the end of the stream, or among the missed.   *)
LEMMA OfferKeepsStream ==
  ASSUME HubInv, NEW p \in Publisher, NEW s \in Viewer, Deliver(p, s) \/ Drop(p, s),
         FaithfulTo(s)
  PROVE  FaithfulTo(s)'
<1>1. /\ s \in visit /\ sent[s] \in Seq(Publisher) /\ Len(sent[s]) \in Nat
      /\ got[s] \in Seq(Publisher) /\ chan[s] \in Seq(Publisher)
      /\ got[s] \o chan[s] \in Seq(Publisher)
  BY LenProperties, ConcatProperties DEF HubInv, HubTypeOK, Deliver, Drop, Offer
<1>2. /\ missed[s] \subseteq 1 .. Len(sent[s]) /\ Len(sent[s]) \in 1 .. Len(sent[s])
      /\ Len(sent[s]) \notin missed[s] /\ sent[s][Len(sent[s])] = p
  BY <1>1 DEF FaithfulTo, PositionsOf, Deliver, Drop, Offer
<1>3. sent' = sent /\ s \notin visit' /\ got' = got
  BY DEF Deliver, Drop, Offer
<1>4. Kept(s) = (1 .. Len(sent[s])) \ (missed[s] \cup {Len(sent[s])})
  BY <1>1 DEF Kept, Pending
<1>5. Kept(s)' = (1 .. Len(sent[s])) \ missed'[s]
  BY <1>3 DEF Kept, Pending
<1>6. CASE Deliver(p, s)
  <2>1. missed' = missed /\ chan'[s] = Append(chan[s], p)
    BY <1>6 DEF Deliver, HubInv, HubTypeOK
  <2>2. Stream(s)' = Append(Stream(s), p)
    <3>0. \A g, c \in Seq(Publisher) : g \o Append(c, p) = Append(g \o c, p)
      BY StreamGrows
    <3>1. got[s] \o Append(chan[s], p) = Append(got[s] \o chan[s], p)
      BY <1>1, <3>0
    <3>2. Stream(s)' = got[s] \o Append(chan[s], p)
      BY <1>3, <2>1 DEF Stream
    <3>. QED
      BY <3>1, <3>2 DEF Stream
  <2>3. Kept(s)' = Kept(s) \cup {Len(sent[s])}
    BY <1>2, <1>4, <1>5, <2>1
  <2>4. \A k \in Kept(s) : k < Len(sent[s])
    BY <1>1, <1>4
  <2>5. Picks(Append(Stream(s), p), sent[s], Kept(s) \cup {Len(sent[s])})
    BY <1>1, <1>2, <1>4, <2>4, PicksOneMore DEF FaithfulTo, Stream
  <2>6. PositionsOf(s)'
    BY <1>2, <1>3, <2>1 DEF PositionsOf
  <2>. QED
    BY <1>3, <2>2, <2>3, <2>5, <2>6 DEF FaithfulTo
<1>7. CASE Drop(p, s)
  <2>1. chan' = chan /\ missed'[s] = missed[s] \cup {Len(sent[s])}
    BY <1>7 DEF Drop, HubInv, HubTypeOK
  <2>2. Stream(s)' = Stream(s) /\ Kept(s)' = Kept(s)
    BY <1>3, <1>4, <1>5, <2>1 DEF Stream
  <2>3. PositionsOf(s)'
    BY <1>2, <1>3, <2>1 DEF PositionsOf
  <2>. QED
    BY <1>3, <2>2, <2>3 DEF FaithfulTo
<1>. QED
  BY <1>6, <1>7

LEMMA ReceiveKeepsStream ==
  ASSUME HubInv, NEW t \in Viewer, Receive(t), NEW s \in Viewer, FaithfulTo(s)
  PROVE  FaithfulTo(s)'
<1>1. UNCHANGED <<hubMu, visit, sent, missed>>
  BY DEF Receive
<1>2. Stream(s)' = Stream(s)
  <2>1. CASE s = t
    <3>1. /\ chan[s] # << >> /\ chan[s] \in Seq(Publisher) /\ got[s] \in Seq(Publisher)
          /\ got'[s] = Append(got[s], Head(chan[s])) /\ chan'[s] = Tail(chan[s])
      BY <2>1 DEF Receive, HubInv, HubTypeOK
    <3>2. Append(got[s], Head(chan[s])) \o Tail(chan[s]) = got[s] \o chan[s]
      BY <3>1, StreamMoves
    <3>. QED
      BY <3>1, <3>2 DEF Stream
  <2>2. CASE s # t
    BY <2>2 DEF Receive, Stream, HubInv, HubTypeOK
  <2>. QED
    BY <2>1, <2>2
<1>. QED
  BY <1>1, <1>2, StreamSame

LEMMA StreamStep == HubInv /\ StreamInv /\ [HubNext]_hubVars => StreamInv'
<1> SUFFICES ASSUME HubInv, StreamInv, [HubNext]_hubVars, NEW s \in Viewer
             PROVE  FaithfulTo(s)'
  BY DEF StreamInv, Positions, StreamIsFaithful, FaithfulTo, PositionsOf
<1>0. FaithfulTo(s)
  BY StreamSplit
<1>1. ASSUME NEW p \in Publisher, NEW n \in Name, Lock(p, n) PROVE FaithfulTo(s)'
  BY <1>0, <1>1, LockKeepsStream
<1>2. ASSUME NEW p \in Publisher, NEW t \in Viewer, Deliver(p, t) \/ Drop(p, t)
      PROVE  FaithfulTo(s)'
  <2>1. CASE t = s
    BY <1>0, <1>2, <2>1, OfferKeepsStream
  <2>2. CASE t # s
    <3>1. /\ UNCHANGED <<hubMu, got, sent>> /\ chan'[s] = chan[s] /\ missed'[s] = missed[s]
          /\ s \in visit' <=> s \in visit
      BY <1>2, <2>2 DEF Deliver, Drop, Offer, HubInv, HubTypeOK
    <3>. QED
      BY <1>0, <3>1, StreamSame DEF Stream
  <2>. QED
    BY <2>1, <2>2
<1>3. ASSUME NEW p \in Publisher, Unlock(p) PROVE FaithfulTo(s)'
  BY <1>0, <1>3, StreamSame DEF Unlock, Stream
<1>4. ASSUME NEW t \in Viewer, Receive(t) PROVE FaithfulTo(s)'
  BY <1>0, <1>4, ReceiveKeepsStream
<1>5. ASSUME NEW t \in Viewer, Subscribe(t) \/ Leave(t) \/ Unsubscribe(t) \/ Close(t)
      PROVE  FaithfulTo(s)'
  BY <1>0, <1>5, StreamSame DEF Subscribe, Leave, Unsubscribe, Close, Stream
<1>6. CASE UNCHANGED hubVars
  BY <1>0, <1>6, StreamSame DEF hubVars, Stream
<1>. QED
  BY <1>1, <1>2, <1>3, <1>4, <1>5, <1>6 DEF HubNext, Publishing, Watching
-----------------------------------------------------------------------------
LEMMA HubInvMeans == HubInv => NoSendOnClosed /\ OnlySlowViewersMiss
<1> SUFFICES ASSUME HubInv PROVE NoSendOnClosed /\ OnlySlowViewersMiss
  OBVIOUS
<1> USE DEF HubInv, HubTypeOK
<1>1. NoSendOnClosed
  <2>1. \A s \in visit : viewing[s] # "gone"
    BY DEF Subscriptions
  <2>. QED
    BY <2>1 DEF NoSendOnClosed, Closed
<1>2. ASSUME NEW s \in Viewer, missed[s] # {} PROVE Len(Stream(s)) >= Capacity
  <2>1. Len(got[s] \o chan[s]) = Len(got[s]) + Len(chan[s])
    BY ConcatProperties
  <2>. QED
    BY <1>2, <2>1 DEF Stream, Backlog
<1>. QED
  BY <1>1, <1>2 DEF OnlySlowViewersMiss

(* The inductive invariant of the hub: see Subscriptions and Backlog.      *)
THEOREM HubInvariant == HubSpec => []HubInv
BY HubInit0, HubStep, PTL DEF HubSpec

(* Publish offers no event to a channel that cancel() has closed.          *)
THEOREM HubNeverSendsOnClosed == HubSpec => []NoSendOnClosed
BY HubInvariant, HubInvMeans, PTL

(* An event is lost to a viewer only when its channel was full.            *)
THEOREM HubDropsOnlyWhenFull == HubSpec => []OnlySlowViewersMiss
BY HubInvariant, HubInvMeans, PTL

(* What a viewer has been sent, with what waits in its channel, is what    *)
(* was published for it while it was subscribed, in that order, each event *)
(* once, but for those that found the channel full.                        *)
THEOREM HubStreamsFaithfully == HubSpec => []StreamIsFaithful
<1>1. HubSpec => []StreamInv
  BY HubInvariant, StreamInit, StreamStep, PTL DEF HubSpec
<1>. QED
  BY <1>1, PTL DEF StreamInv
=============================================================================

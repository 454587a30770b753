------------------------------- MODULE LogHub -------------------------------
(***************************************************************************)
(* The hub of log lines (internal/logstream) and the handler that streams  *)
(* them to a browser (API.Logs).  A viewer has a buffered channel in       *)
(* h.subs; Publish holds h.mu and offers the event to each subscriber,     *)
(* whose channel may be full; cancel() takes the viewer out of h.subs      *)
(* under h.mu and closes the channel after it has let go of it.  Viewers   *)
(* receive without the lock, so a step is one send, one receive, or one    *)
(* critical section.  An event is named after the call that publishes it.  *)
(***************************************************************************)
EXTENDS Naturals, Sequences, FiniteSets

CONSTANTS Publisher,  \* the calls that publish an event
          Viewer,     \* the requests to the log stream
          Name,       \* names of functions
          Topic,      \* the function each viewer asks for
          Capacity,   \* of a subscriber's channel: 64
          None         \* no publisher

ASSUME HubAssumption ==
  /\ None \notin Publisher
  /\ Topic \in [Viewer -> Name]
  /\ Capacity \in Nat \ {0}

VARIABLES
  subs,    \* the keys of h.subs
  chan,    \* the channel of each viewer
  hubMu,   \* the Publish that holds h.mu
  visit,   \* subscribers that this Publish has still to offer its event to
  viewing, \* where the handler of each viewer is
  got,     \* what each viewer was sent, in order
  sent,    \* history: what was published for a viewer while it was in h.subs
  missed   \* history: the positions in sent of those that found its channel full

hubVars == <<subs, chan, hubMu, visit, viewing, got, sent, missed>>

HubInit ==
  /\ subs = {} /\ hubMu = None /\ visit = {}
  /\ chan    = [s \in Viewer |-> << >>]
  /\ viewing = [s \in Viewer |-> "away"]
  /\ got     = [s \in Viewer |-> << >>]
  /\ sent    = [s \in Viewer |-> << >>]
  /\ missed  = [s \in Viewer |-> {}]

Move(s, at) == viewing' = [viewing EXCEPT ![s] = at]
-----------------------------------------------------------------------------
(* Publish, with h.mu held from the first step to the last.                *)

Lock(p, n) ==
  /\ hubMu = None
  /\ hubMu' = p
  /\ visit' = {s \in subs : Topic[s] = n}
  /\ sent' = [s \in Viewer |-> IF s \in visit' THEN Append(sent[s], p) ELSE sent[s]]
  /\ UNCHANGED <<subs, chan, viewing, got, missed>>

Offer(p, s) ==
  /\ hubMu = p /\ s \in visit
  /\ visit' = visit \ {s}
  /\ UNCHANGED <<subs, hubMu, viewing, got, sent>>

DeliverUnbounded(p, s) ==
  /\ Offer(p, s)
  /\ chan' = [chan EXCEPT ![s] = Append(@, p)]
  /\ UNCHANGED missed

Deliver(p, s) ==
  /\ Len(chan[s]) < Capacity
  /\ Offer(p, s)
  /\ chan' = [chan EXCEPT ![s] = Append(@, p)]
  /\ UNCHANGED missed

DropAtWill(p, s) ==
  /\ Offer(p, s)
  /\ missed' = [missed EXCEPT ![s] = @ \cup {Len(sent[s])}]
  /\ UNCHANGED chan

WaitForRoom(p, s) ==
  /\ Len(chan[s]) = Capacity /\ hubMu = p /\ s \in visit
  /\ UNCHANGED hubVars

MakeRoom(p, s) ==
  /\ Len(chan[s]) = Capacity
  /\ Offer(p, s)
  /\ chan' = [chan EXCEPT ![s] = Append(Tail(@), p)]
  /\ UNCHANGED missed

(* The select has a default: an event that finds the channel full is lost. *)
Drop(p, s) ==
  /\ Len(chan[s]) = Capacity
  /\ Offer(p, s)
  /\ missed' = [missed EXCEPT ![s] = @ \cup {Len(sent[s])}]
  /\ UNCHANGED chan

Unlock(p) ==
  /\ hubMu = p /\ visit = {}
  /\ hubMu' = None
  /\ UNCHANGED <<subs, chan, visit, viewing, got, sent, missed>>
-----------------------------------------------------------------------------
(* The handler of a viewer: subscribe, pass events on until the request is *)
(* over, then cancel().                                                    *)

Subscribe(s) ==
  /\ viewing[s] = "away" /\ hubMu = None
  /\ subs' = subs \cup {s}
  /\ Move(s, "watching")
  /\ UNCHANGED <<chan, hubMu, visit, got, sent, missed>>

Receive(s) ==
  /\ viewing[s] = "watching" /\ chan[s] # << >>
  /\ got' = [got EXCEPT ![s] = Append(@, Head(chan[s]))]
  /\ chan' = [chan EXCEPT ![s] = Tail(@)]
  /\ UNCHANGED <<subs, hubMu, visit, viewing, sent, missed>>

Leave(s) ==
  /\ viewing[s] = "watching"
  /\ Move(s, "leaving")
  /\ UNCHANGED <<subs, chan, hubMu, visit, got, sent, missed>>

UnsubscribeUnlocked(s) ==
  /\ viewing[s] = "leaving"
  /\ subs' = subs \ {s}
  /\ Move(s, "closing")
  /\ UNCHANGED <<chan, hubMu, visit, got, sent, missed>>

Unsubscribe(s) ==
  /\ viewing[s] = "leaving" /\ hubMu = None
  /\ subs' = subs \ {s}
  /\ Move(s, "closing")
  /\ UNCHANGED <<chan, hubMu, visit, got, sent, missed>>

Close(s) ==
  /\ viewing[s] = "closing"
  /\ Move(s, "gone")
  /\ UNCHANGED <<subs, chan, hubMu, visit, got, sent, missed>>

Publishing(p) == (\E s \in Viewer : Deliver(p, s) \/ Drop(p, s)) \/ Unlock(p)
Watching(s)   == Receive(s) \/ Leave(s) \/ Unsubscribe(s) \/ Close(s)

(* The hub on its own: anybody may publish anything at any time.           *)
HubNext ==
  \/ \E p \in Publisher : Publishing(p) \/ \E n \in Name : Lock(p, n)
  \/ \E s \in Viewer : Subscribe(s) \/ Watching(s)

HubSpec == HubInit /\ [][HubNext]_hubVars
-----------------------------------------------------------------------------
Closed == {s \in Viewer : viewing[s] = "gone"}

(* A send on a closed channel panics and takes the whole server with it.   *)
(* Publish offers an event only to channels that cancel() has not closed,  *)
(* however the two interleave.                                             *)
NoSendOnClosed == visit \cap Closed = {}

(* The elements of q at the positions in K, in their order, make up t.     *)
Picks(t, q, K) ==
  \E pos \in [1 .. Len(t) -> K] :
    /\ \A i, j \in 1 .. Len(t) : i < j => pos[i] < pos[j]
    /\ \A k \in K : \E i \in 1 .. Len(t) : pos[i] = k
    /\ \A i \in 1 .. Len(t) : t[i] = q[pos[i]]

Stream(s)  == got[s] \o chan[s]
Pending(s) == {k \in {Len(sent[s])} : s \in visit}      \* the last one
Kept(s)    == (1 .. Len(sent[s])) \ (missed[s] \cup Pending(s))

(* What a viewer sees is what was published for its function since it      *)
(* subscribed, in the order of publication, each event once; the only gaps *)
(* are the events that found its channel full.                             *)
StreamIsFaithful == \A s \in Viewer : Picks(Stream(s), sent[s], Kept(s))

(* A viewer that has missed an event had a full channel to read first.     *)
OnlySlowViewersMiss ==
  \A s \in Viewer : missed[s] # {} => Len(Stream(s)) >= Capacity
=============================================================================

--------------------------- MODULE RealtimeEvents ---------------------------
(***************************************************************************)
(* Live updates between the processes of an application.  A process sends  *)
(* an event to its own streams at once and inserts it, in a task of its    *)
(* own, into a table; every process polls that table and sends what the    *)
(* others inserted to its streams.                                         *)
(*                                                                         *)
(* The sequence of a row is drawn when the INSERT runs and the row is seen *)
(* when it commits, so that rows may appear out of order; a poll that has  *)
(* gone past a sequence never returns to it.  A stream that reads too      *)
(* slowly loses the oldest events and is told to reload.                   *)
(***************************************************************************)
EXTENDS Null, Integers, Sequences, FiniteSets, Functions

CONSTANTS
  Replica,      \* the processes
  Event,
  Capacity,     \* of the broadcast channel: 1024
  Limit,        \* of a poll: 256
  Reads,        \* bound: processes whose streams read what they get
  Old,          \* bound: events that may stay in the table for five minutes
  By,           \* bound: pairs of a process and an event it may publish
  MaxSequence   \* bound: of the sequences drawn

EventsAssumption ==
  /\ IsFiniteSet(Event) /\ "resync" \notin Event
  /\ Capacity \in Nat \ {0} /\ Limit \in Nat \ {0} /\ MaxSequence \in Nat
  /\ None \notin Replica /\ None \notin Nat
  /\ Reads \subseteq Replica /\ Old \subseteq Event /\ By \subseteq Replica \X Event

VARIABLES
  source,    \* the process an event was published by, None before
  drawn,     \* sequences, 0 before the INSERT
  stored,    \* committed rows that were not cleaned up yet
  cursor,    \* of each process's poll, None before it is initialized
  first,     \* history: what it was initialized to
  polled,    \* rows of the last poll that are still to be sent
  channel,   \* events a process's stream has not received yet
  lagged,    \* it has lost some, and was not told yet
  got,       \* what it received, "resync" included
  lost,      \* history: events it lost
  hidden     \* history: pairs of a process and an event it cannot see any more

eventVars == <<source, drawn, stored, cursor, first, polled, channel, lagged, got, lost, hidden>>

Sequence == 0 .. MaxSequence

EventTypes ==
  /\ source \in [Event -> Replica \cup {None}] /\ drawn \in [Event -> Sequence]
  /\ stored \subseteq {e \in Event : drawn[e] > 0}
  /\ cursor \in [Replica -> Sequence \cup {None}] /\ first \in [Replica -> Sequence \cup {None}]
  /\ polled \in [Replica -> SUBSET Event] /\ channel \in [Replica -> Seq(Event)]
  /\ \A p \in Replica : Cardinality(polled[p]) <= Limit /\ Len(channel[p]) <= Capacity
  /\ lagged \in [Replica -> BOOLEAN] /\ got \in [Replica -> Seq(Event \cup {"resync"})]
  /\ lost \in [Replica -> SUBSET Event] /\ hidden \subseteq Replica \X Event

EventsInit ==
  /\ source = [e \in Event |-> None] /\ drawn = [e \in Event |-> 0] /\ stored = {}
  /\ cursor = [p \in Replica |-> None] /\ first = [p \in Replica |-> None]
  /\ polled = [p \in Replica |-> {}] /\ channel = [p \in Replica |-> <<>>]
  /\ lagged = [p \in Replica |-> FALSE] /\ got = [p \in Replica |-> <<>>]
  /\ lost = [p \in Replica |-> {}] /\ hidden = {}
-----------------------------------------------------------------------------
(* The channel of a process, tokio::sync::broadcast *)

Send(p, e) ==
  LET full == Len(channel[p]) = Capacity
      kept == IF full THEN Tail(channel[p]) ELSE channel[p]
  IN  /\ channel' = [channel EXCEPT ![p] = Append(kept, e)]
      /\ lagged' = [lagged EXCEPT ![p] = @ \/ full]
      /\ lost' = [lost EXCEPT ![p] = IF full THEN @ \cup {Head(channel[p])} ELSE @]

SendsNothing == UNCHANGED <<channel, lagged, lost>>

Receive(p) ==
  /\ p \in Reads
  /\ \/ /\ lagged[p]
        /\ lagged' = [lagged EXCEPT ![p] = FALSE]
        /\ got' = [got EXCEPT ![p] = Append(@, "resync")]
        /\ UNCHANGED channel
     \/ /\ ~lagged[p] /\ channel[p] # <<>>
        /\ got' = [got EXCEPT ![p] = Append(@, Head(channel[p]))]
        /\ channel' = [channel EXCEPT ![p] = Tail(@)]
        /\ UNCHANGED lagged
  /\ UNCHANGED <<source, drawn, stored, cursor, first, polled, lost, hidden>>
-----------------------------------------------------------------------------
(* dispatch and persist_event *)

Publish(p, e) ==
  /\ source[e] = None /\ <<p, e>> \in By
  /\ source' = [source EXCEPT ![e] = p]
  /\ Send(p, e)
  /\ UNCHANGED <<drawn, stored, cursor, first, polled, got, hidden>>

\* Sequences grow, with gaps where an INSERT failed.
Insert(e) ==
  /\ source[e] # None /\ drawn[e] = 0
  /\ \E n \in Sequence :
       /\ \A f \in Event : drawn[f] < n
       /\ drawn' = [drawn EXCEPT ![e] = n]
  /\ UNCHANGED <<source, stored, cursor, first, polled, channel, lagged, got, lost, hidden>>

\* The processes whose last poll went past the sequence of e without seeing it.
PolledPast(p, e) ==
  /\ cursor[p] # None /\ first[p] < drawn[e]
  /\ drawn[e] <= cursor[p] \/ \E f \in polled[p] : drawn[e] <= drawn[f]
Overtaken(e) == {p \in Replica : PolledPast(p, e)}

CommitEvent(e) ==
  /\ drawn[e] > 0 /\ e \notin stored /\ (\A p \in Replica : <<p, e>> \notin hidden)
  /\ stored' = stored \cup {e}
  /\ hidden' = hidden \cup (Overtaken(e) \X {e})
  /\ UNCHANGED <<source, drawn, cursor, first, polled, channel, lagged, got, lost>>

\* Five minutes have passed: rows go, whether every process has seen them or not.
CleanUp(e) ==
  /\ e \in stored \cap Old
  /\ stored' = stored \ {e}
  /\ hidden' = hidden \cup (Replica \X {e})
  /\ UNCHANGED <<source, drawn, cursor, first, polled, channel, lagged, got, lost>>
-----------------------------------------------------------------------------
(* fanout_events *)

StartFanout(p) ==
  /\ cursor[p] = None
  /\ \E latest \in {drawn[e] : e \in stored} \cup {0} :
       /\ \A e \in stored : drawn[e] <= latest
       /\ cursor' = [cursor EXCEPT ![p] = latest] /\ first' = [first EXCEPT ![p] = latest]
  /\ UNCHANGED <<source, drawn, stored, polled, channel, lagged, got, lost, hidden>>

\* Mutant: a poll begins with the row the last one ended with.
FromCursor(p) == {e \in stored : drawn[e] >= cursor[p]}

AfterCursor(p) == {e \in stored : drawn[e] > cursor[p]}

Poll(p) ==
  /\ cursor[p] # None /\ polled[p] = {} /\ AfterCursor(p) # {}
  /\ \E rows \in SUBSET AfterCursor(p) :
       /\ Cardinality(rows) <= Limit
       /\ rows = AfterCursor(p) \/ Cardinality(rows) = Limit
       /\ \A e \in rows, f \in AfterCursor(p) \ rows : drawn[e] < drawn[f]
       /\ polled' = [polled EXCEPT ![p] = rows]
  /\ UNCHANGED <<source, drawn, stored, cursor, first, channel, lagged, got, lost, hidden>>

IsForeign(p, e) == source[e] # p

\* The rows of a poll are sent in the order of their sequences.
Forward(p) ==
  /\ \E e \in polled[p] :
       /\ \A f \in polled[p] : drawn[e] <= drawn[f]
       /\ cursor' = [cursor EXCEPT ![p] = drawn[e]]
       /\ polled' = [polled EXCEPT ![p] = @ \ {e}]
       /\ IF IsForeign(p, e) THEN Send(p, e) ELSE SendsNothing
  /\ UNCHANGED <<source, drawn, stored, first, got, hidden>>

EventsNext ==
  \/ \E p \in Replica : \/ Receive(p) \/ StartFanout(p) \/ Poll(p) \/ Forward(p)
                        \/ \E e \in Event : Publish(p, e)
  \/ \E e \in Event : Insert(e) \/ CommitEvent(e) \/ CleanUp(e)

EventsSpec == EventsInit /\ [][EventsNext]_eventVars
-----------------------------------------------------------------------------
(* Properties *)

\* The events that may come after event e in a stream of p.
Followers(p) ==
  [e \in Event |->
     {f \in Event \ {e} : IsForeign(p, e) /\ IsForeign(p, f) => drawn[e] < drawn[f]}]

\* A stream gets no event twice, and those of other processes in the order of
\* their rows, though polls and local sends interleave (fanout_events).
DeliversOnceInOrder ==
  \A p \in Replica : \A i, j \in DOMAIN got[p] :
    i < j /\ {got[p][i], got[p][j]} \subseteq Event => got[p][j] \in Followers(p)[got[p][i]]

\* What a stream was not sent although its process polled past it was seen by
\* no poll: its row came late or was cleaned up.  What a slow stream lost, it is
\* or was told about by a resync.
NothingMissedSilently ==
  \A p \in Replica :
    /\ \A e \in stored :
         cursor[p] # None /\ first[p] < drawn[e] /\ drawn[e] <= cursor[p] /\ IsForeign(p, e)
         => e \in Range(got[p]) \cup Range(channel[p]) \cup lost[p] \/ <<p, e>> \in hidden
    /\ lost[p] # {} => lagged[p] \/ "resync" \in Range(got[p])

\* Streams get events once and in order; what they miss, they are told of or no
\* poll has seen (fanout_events and the streams of events()).
StreamsAreComplete == EventTypes /\ DeliversOnceInOrder /\ NothingMissedSilently
=============================================================================

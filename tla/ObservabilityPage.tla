------------------------- MODULE ObservabilityPage -------------------------
(***************************************************************************)
(* The /observability page in one browser, reading the feed: PageCards     *)
(* behind ObservabilityFeed.  The page keeps one EventSource; the browser  *)
(* reconnects it when the connection is lost, so the page's successive     *)
(* connections are members of Streams.  Every (re)connection replays the   *)
(* server's ring.  Clicks, frames and reflows stay within the tab and do   *)
(* nothing to the feed: they are left to PageCards.                        *)
(***************************************************************************)
EXTENDS PageCards

CONSTANTS
    Streams, MaxBuffered, MaxQueue, WireRoom, Readers,        \* as in ObservabilityFeed
    NoStream                                    \* the page has no connection

ASSUME StreamAssumption ==
    /\ MaxBuffered \in Nat \ {0}
    /\ MaxQueue \in Nat \ {0}
    /\ WireRoom \in Nat \ {0}
    /\ Readers \subseteq Streams
    /\ NoStream \notin Streams

VARIABLES
    entries, subscribers, targets, loopOpen, ready, phase, snap, pos, queue, wire,
    connected, log, live, dropped, old, prior,                \* as in ObservabilityFeed
    unparseable,    \* the entries whose frame JSON.parse refuses (a NaN or Infinity cell)
    source,         \* the stream behind the page's EventSource, or NoStream
    shown           \* history: the connections on which the loaded page made a card, by entry

Feed == INSTANCE ObservabilityFeed

feedVars == <<entries, subscribers, targets, loopOpen, ready, phase, snap, pos, queue, wire,
              connected, log, live, dropped, old, prior>>

pageVars == <<vars, unparseable, source, shown>>

allVars == <<feedVars, pageVars>>

PageInit ==
    /\ Feed!Init
    /\ Init
    /\ unparseable \in SUBSET Entries
    /\ source = NoStream
    /\ shown = [e \in Entries |-> {}]

-----------------------------------------------------------------------------
\* source.onmessage: a frame that does not parse is swallowed.
OnMessage(c) ==
    /\ source = c
    /\ Feed!ClientRead(c)
    /\ LET e == Head(wire[c])
       IN  \/ /\ e \notin unparseable
              /\ AddEntry(e)
              /\ shown' = IF e \in seen THEN shown ELSE [shown EXCEPT ![e] = @ \cup {c}]
           \/ /\ e \in unparseable
              /\ UNCHANGED <<vars, shown>>
    /\ UNCHANGED <<unparseable, source>>

\* connect(), and the browser's own retries.
Connect(c) ==
    /\ source = NoStream
    /\ Feed!Open(c)
    /\ source' = c
    /\ UNCHANGED <<vars, unparseable, shown>>

\* The browser loses the connection; the server has not noticed yet.
ConnectionLost ==
    /\ source # NoStream
    /\ source' = NoStream
    /\ UNCHANGED <<feedVars, vars, unparseable, shown>>

\* The server notices that the connection is gone.
ServerNotices(c) ==
    /\ Feed!Disconnect(c)
    /\ source' = IF source = c THEN NoStream ELSE source
    /\ UNCHANGED <<vars, unparseable, shown>>

\* The page is loaded again: its connection is dropped with everything it knew.
LoadAgain ==
    /\ Reload
    /\ source' = NoStream
    /\ shown' = [e \in Entries |-> {}]
    /\ UNCHANGED <<feedVars, unparseable>>

PageNext ==
    \/ Feed!Server /\ UNCHANGED pageVars
    \/ \E c \in Streams : Connect(c) \/ OnMessage(c) \/ ServerNotices(c)
    \/ ConnectionLost
    \/ LoadAgain

PageSpec == PageInit /\ [][PageNext]_allVars

-----------------------------------------------------------------------------
\* Nothing is on its way to the page and its stream waits for the next entry.
CaughtUp(c) ==
    /\ source = c
    /\ phase[c] = "await"
    /\ wire[c] = <<>>
    /\ Feed!Outstanding(c) = {}

\* End to end: once the page has caught up, every entry that was in the ring at
\* its last connection or was recorded since has had a card, except those the
\* stream's full queue refused and those the page could not parse.
CaughtUpPageIsComplete ==
    \A c \in Streams : CaughtUp(c) =>
        \A e \in Feed!Recorded \ (old[c] \cup dropped[c] \cup unparseable) : shown[e] # {}

\* "The client ... dedupes by `request_id` across reconnects": while a page is
\* loaded, no request gets a card on one connection and another card on a later one.
DedupesAcrossReconnects == \A e \in Entries : \A c, d \in shown[e] : c = d
=============================================================================

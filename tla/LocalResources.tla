-------------------------- MODULE LocalResources --------------------------
(***************************************************************************)
(* LocalResources (python/graphed/core/execution.py): one worker's cache   *)
(* of open file handles, bounded, the least recently used closed first.    *)
(* A task opens the files it reads one by one and uses them until it ends. *)
(***************************************************************************)
EXTENDS Integers, Sequences, SequencesExt, FiniteSets

CONSTANTS
  Uris,
  MaxOpen,   \* max_open
  PerTask    \* files one task reads

VARIABLES
  handles,   \* the uris with an open handle, least recently used first
  using,     \* the uris this task has opened
  stale      \* history: those of them whose handle was closed since

vars == <<handles, using, stale>>

Init == handles = << >> /\ using = {} /\ stale = {}

\* A hit that leaves the handle's age alone.
Touched_Not(uri) == handles

\* move_to_end, or the new handle last.
Touched(uri) ==
  LET at == CHOOSE i \in DOMAIN handles : handles[i] = uri
  IN  Append(RemoveAt(handles, at), uri)

Evicted(hs) == IF Len(hs) > MaxOpen THEN {Head(hs)} ELSE {}
Kept(hs) == IF Len(hs) > MaxOpen THEN Tail(hs) ELSE hs

open_once(uri) ==
  /\ Cardinality(using \union {uri}) <= PerTask
  /\ LET hit   == Contains(handles, uri)
         after == IF hit THEN Touched(uri) ELSE Append(handles, uri)
     IN  /\ handles' = Kept(after)
         /\ stale' = (stale \ {uri}) \union (Evicted(after) \intersect (using \union {uri}))
  /\ using' = using \union {uri}

EndTask ==
  /\ using' = {} /\ stale' = {}
  /\ UNCHANGED handles

close ==
  /\ using = {}
  /\ handles' = << >>
  /\ UNCHANGED <<using, stale>>

Next == (\E uri \in Uris : open_once(uri)) \/ EndTask \/ close

Spec == Init /\ [][Next]_vars
\* A task that reads no more files than may be open finds each handle it got
\* open until it ends, whatever the worker's earlier tasks left in the cache.
HandlesInUseStayOpen == PerTask <= MaxOpen => stale = {}
=============================================================================

----------------------------- MODULE RunStream -----------------------------
(***************************************************************************)
(* The SSE stream of one run: the rows its tree of runs has in run_events, *)
(* the asyncio.Event that wakes readers, and the connections that read.    *)
(* A reader suspends wherever it writes to its client, so rows may be      *)
(* added, and the run may end, between any two of its steps.               *)
(***************************************************************************)
EXTENDS Integers, Sequences

CONSTANTS
  Clients,
  MaxEvents,       \* bound: events of the run and of its child
  MaxDisconnects   \* bound: connections that break

ASSUME StreamAssumption == MaxEvents \in Nat /\ MaxDisconnects \in Nat

VARIABLES
  logged,      \* how many rows list_run_tree_events returns
  runOver,     \* is the run's status terminal?
  held,        \* is the Run object in state["runs"]?
  signals,     \* how often _notify was called
  reader,      \* reader[c]: the connection of client c
  got,         \* got[c]: the events c has received, over all its connections
  breaks       \* counts what MaxDisconnects bounds

streamVars == <<logged, runOver, held, signals, reader, got, breaks>>
runVars    == <<logged, runOver, held, signals>>

NoReader == [phase |-> "none", index |-> 0, upto |-> 0, seen |-> 0, own |-> FALSE]

StreamInit ==
  /\ logged = 0
  /\ runOver = FALSE
  /\ held = TRUE
  /\ signals = 0
  /\ reader = [c \in Clients |-> NoReader]
  /\ got = [c \in Clients |-> <<>>]
  /\ breaks = 0

-----------------------------------------------------------------------------
(* The run.                                                                *)

\* add_run_event, then the callback on_event, which notifies.
LogEvent ==
  /\ ~runOver /\ logged < MaxEvents
  /\ logged' = logged + 1
  /\ signals' = signals + 1
  /\ UNCHANGED <<runOver, held, reader, got, breaks>>

\* The finally of execute().
EndRun ==
  /\ ~runOver
  /\ runOver' = TRUE
  /\ signals' = signals + 1
  /\ UNCHANGED <<logged, held, reader, got, breaks>>

\* The server dies and another recovers the run, which it does not hold.
Restart ==
  /\ held
  /\ held' = FALSE /\ runOver' = TRUE
  /\ reader' = [c \in Clients |-> NoReader]
  /\ UNCHANGED <<logged, signals, got, breaks>>

-----------------------------------------------------------------------------
(* Readers.                                                                *)

\* ids.index(cursor) + 1
ResumeAfterCursor(c) == Len(got[c])

\* A client that has received events says which the last one was, after a
\* connection that broke or one that was closed; where the server does not hold
\* the run a Run of the reader's own stands in for it.
Connect(c) ==
  /\ reader[c].phase \in {"none", "closed"}
  /\ reader' = [reader EXCEPT ![c] =
       [phase |-> "list", index |-> ResumeAfterCursor(c), upto |-> 0, seen |-> 0, own |-> ~held]]
  /\ UNCHANGED <<runVars, got, breaks>>

AfterRows == IF runOver THEN "closed" ELSE "wait"

\* Mutant: the signal to wait for is taken when there is nothing left to write.
SignalLate(c) == signals

\* change = run.changed, before the rows are read.
SignalFirst(c) == IF reader[c].phase = "list" THEN signals ELSE reader[c].seen

\* One pass of the loop up to its first write.
ListRows(c) ==
  /\ reader[c].phase = "list"
  /\ LET done == reader[c].index = logged
     IN reader' = [reader EXCEPT ![c] =
          [@ EXCEPT !.upto = logged, !.seen = SignalFirst(c),
                    !.phase = IF done THEN AfterRows ELSE "write"]]
  /\ UNCHANGED <<runVars, got, breaks>>

\* After its last write the reader looks at the status without reading rows again.
WriteRow(c) ==
  /\ reader[c].phase = "write" /\ reader[c].index < reader[c].upto
  /\ got' = [got EXCEPT ![c] = Append(@, reader[c].index + 1)]
  /\ reader' = [reader EXCEPT ![c].index = @ + 1]
  /\ UNCHANGED <<runVars, breaks>>

CheckStatus(c) ==
  /\ reader[c].phase = "write" /\ reader[c].index = reader[c].upto
  /\ reader' = [reader EXCEPT ![c].phase = AfterRows, ![c].seen = SignalFirst(c)]
  /\ UNCHANGED <<runVars, got, breaks>>

Signalled(c) == ~reader[c].own /\ signals > reader[c].seen

WakeReader(c) ==
  /\ reader[c].phase = "wait" /\ Signalled(c)
  /\ reader' = [reader EXCEPT ![c].phase = "list"]
  /\ UNCHANGED <<runVars, got, breaks>>

\* 15 seconds without a signal.
KeepAlive(c) ==
  /\ reader[c].phase = "wait" /\ ~Signalled(c)
  /\ reader' = [reader EXCEPT ![c].phase = "list"]
  /\ UNCHANGED <<runVars, got, breaks>>

Disconnect(c) ==
  /\ reader[c].phase \in {"list", "write", "wait"}
  /\ breaks < MaxDisconnects
  /\ breaks' = breaks + 1
  /\ reader' = [reader EXCEPT ![c] = NoReader]
  /\ UNCHANGED <<runVars, got>>

ReaderStep(c) == ListRows(c) \/ WriteRow(c) \/ CheckStatus(c) \/ WakeReader(c) \/ KeepAlive(c)

StreamNext ==
  \/ LogEvent \/ EndRun \/ Restart
  \/ \E c \in Clients : Connect(c) \/ ReaderStep(c) \/ Disconnect(c)

StreamSpec == StreamInit /\ [][StreamNext]_streamVars

-----------------------------------------------------------------------------
(* Properties.                                                             *)

StreamTypeOK ==
  /\ logged \in 0 .. MaxEvents /\ runOver \in BOOLEAN /\ held \in BOOLEAN /\ signals \in Nat
  /\ reader \in [Clients -> [phase : {"none", "list", "write", "wait", "closed"},
                             index : 0 .. MaxEvents, upto : 0 .. MaxEvents, seen : Nat, own : BOOLEAN]]
  /\ got \in [Clients -> Seq(1 .. MaxEvents)]
  /\ breaks \in 0 .. MaxDisconnects

(* Over all its connections a client receives the first events of the      *)
(* table, in its order, none twice and none passed over (Last-Event-ID).   *)
EventsInOrder == \A c \in Clients : \A i \in DOMAIN got[c] : got[c][i] = i

(* A reader that waits although there are rows it has not sent, or the run *)
(* has ended, has been signalled: it does not depend on the keepalive      *)
(* (change = run.changed).                                                 *)
NoLostWakeup ==
  \A c \in Clients :
    reader[c].phase = "wait" /\ ~reader[c].own /\ (reader[c].index < logged \/ runOver) => Signalled(c)

(* A stream may be closed before the last events, the terminal one among   *)
(* them: they were added while it was writing, and events() looks at the   *)
(* status without reading rows again.  That is the only way: what was      *)
(* there when the reader last took its signal has been sent, so that a     *)
(* connection made after the end of the run, as by a client that comes     *)
(* back with its Last-Event-ID, is closed with all of them.                *)
ShortOnlyWhileWriting ==
  \A c \in Clients :
    reader[c].phase = "closed" => runOver /\ (reader[c].index < logged => signals > reader[c].seen)

(* What a client has is a prefix of the events, no reader waits for what   *)
(* it could have, and one that was closed lacks only what was added while  *)
(* it wrote.                                                               *)
StreamIsTrue == EventsInOrder /\ NoLostWakeup /\ ShortOnlyWhileWriting
=============================================================================

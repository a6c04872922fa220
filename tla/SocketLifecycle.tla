--------------------------- MODULE SocketLifecycle ---------------------------
(***************************************************************************)
(* How daemons take, keep and give up the control socket                   *)
(* (src/src/ipc/server.c), from the start of `run` to its return.  Nothing *)
(* but the socket file keeps two daemons apart, and each call on it is a   *)
(* step of its own: any other process may run in between.                  *)
(***************************************************************************)
EXTENDS Naturals, FiniteSets

CONSTANTS
  Daemons,      \* the processes that are ever started
  None,         \* no file at the socket path
  Leftover      \* the file of a daemon that crashed before this history

ASSUME SocketAssumption ==
  None \notin Daemons /\ Leftover \notin Daemons /\ None # Leftover

VARIABLES
  at,     \* the call a process is about to make
  file    \* the daemon that bound the file at the socket path

vars == <<at, file>>

Starting == {"probe", "unlink", "bind", "chmod", "listen", "undo"}
Running == {"serve", "finish", "remove"}
Ended == {"off", "failed", "left", "crashed"}

\* connect() succeeds on the file of a process that has called listen and
\* not yet closed its descriptor; on any other file it is refused.
Accepts(d) == d \in Daemons /\ at[d] \in {"serve", "finish"}

Init ==
  /\ at = [d \in Daemons |-> "off"]
  /\ file \in {None, Leftover}

Goto(d, from, to) == at[d] = from /\ at' = [at EXCEPT ![d] = to]

Start(d) == Goto(d, "off", "probe") /\ UNCHANGED file

\* mutants: a refused connection does not make a socket stale, or an
\* accepted one does
RefusedIsLive(f) == IF f = None THEN "bind" ELSE "failed"
AcceptedIsStale(f) == IF f = None THEN "bind" ELSE "unlink"

\* where the answer to a connection sends a starting daemon
Probed(f) ==
  IF f = None THEN "bind" ELSE IF Accepts(f) THEN "failed" ELSE "unlink"

Probe(d) == Goto(d, "probe", Probed(file)) /\ UNCHANGED file

UnlinkStale(d) ==
  /\ Goto(d, "unlink", IF file = None THEN "failed" ELSE "bind")
  /\ file' = None

Bind(d) ==
  /\ Goto(d, "bind", IF file = None THEN "chmod" ELSE "failed")
  /\ file' = IF file = None THEN d ELSE file

\* chmod names the path: it fails when the file is gone, whosever it was
Chmod(d) ==
  /\ Goto(d, "chmod", IF file = None THEN "undo" ELSE "listen")
  /\ UNCHANGED file

Listen(d) == Goto(d, "listen", "serve") /\ UNCHANGED file

Undo(d) == Goto(d, "undo", "failed") /\ file' = None

\* a stop command, a signal, a lost compositor or no compositor at all
Finish(d) == Goto(d, "serve", "finish") /\ UNCHANGED file

CloseSocket(d) == Goto(d, "finish", "remove") /\ UNCHANGED file

\* mutant: the file stays behind
RemoveNothing(d) == Goto(d, "remove", "left") /\ UNCHANGED file

Remove(d) == Goto(d, "remove", "left") /\ file' = None

Crash(d) ==
  /\ at[d] \in Starting \cup Running
  /\ at' = [at EXCEPT ![d] = "crashed"]
  /\ UNCHANGED file

Proceed(d) ==
  \/ Probe(d) \/ UnlinkStale(d) \/ Bind(d) \/ Chmod(d) \/ Listen(d) \/ Undo(d)
  \/ CloseSocket(d) \/ Remove(d)

Next == \E d \in Daemons : Start(d) \/ Proceed(d) \/ Finish(d) \/ Crash(d)

Spec == Init /\ [][Next]_vars

\* A process that is not stopped makes its next call; whether a daemon is
\* started, told to stop or crashes is up to the world.
FairSpec == Spec /\ \A d \in Daemons : WF_vars(Proceed(d))

-----------------------------------------------------------------------------
(* Properties.                                                             *)

\* The type invariant.
TypeOK ==
  /\ at \in [Daemons -> Starting \cup Running \cup Ended]
  /\ file \in Daemons \cup {None, Leftover}

(* A socket file is left behind only by a crash: whatever daemons race for *)
(* the path and unlink each other's files, a daemon that has failed to     *)
(* start or has left did not leave its file at the path.                   *)
StaleOnlyByCrash ==
  \A d \in Daemons :
    file = d => at[d] \in {"chmod", "listen", "undo", "crashed"} \cup Running

\* d serves the socket and no other process has passed the probe.
Established(d) ==
  /\ at[d] = "serve" /\ file = d
  /\ \A e \in Daemons \ {d} : at[e] \in Ended \cup {"probe"}

(* A daemon that is established is not displaced: however many more are    *)
(* started beside it, they find it alive and give up, and it keeps the     *)
(* path until it stops or crashes itself.                                  *)
EstablishedStays ==
  [][\A d \in Daemons : Established(d) /\ at'[d] = "serve" => Established(d)']_vars

Alone(d) == \A e \in Daemons \ {d} : at[e] \in Ended

(* A crash at any call never keeps the daemon from being started again: a  *)
(* daemon that starts alone comes to serve, whatever file the last one     *)
(* left (systemd restarts it on failure).                                  *)
RestartSucceeds ==
  \A d \in Daemons :
    at[d] = "probe" /\ Alone(d) ~> at[d] \in {"serve", "crashed"} \/ ~Alone(d)

\* "Only one instance can run at a time."
OnlyOneInstance == Cardinality({d \in Daemons : at[d] = "serve"}) <= 1

=============================================================================

---------------------------- MODULE ControlSocket ----------------------------
(***************************************************************************)
(* Requests over the control socket (src/src/ipc/protocol.c, server.c,     *)
(* client.c), and the daemons that start, stop and crash meanwhile         *)
(* (SocketLifecycle).  A daemon has one thread: it accepts a connection,   *)
(* waits until a deadline for the one frame on it, obeys it and answers.   *)
(*                                                                         *)
(* The bytes of a frame are "none", "part" (with the first of them comes   *)
(* the descriptor of a prepared image) or "all".  A deadline may pass      *)
(* whenever there is nothing to read.  What a request does is in Sweetbgd. *)
(***************************************************************************)
EXTENDS SocketLifecycle, Sequences

CONSTANTS
  Clients,      \* sweetbg commands, of one request each
  Carriers,     \* those whose request carries a descriptor
  Backlog       \* connections the kernel keeps for a daemon to accept

ASSUME ConnectionAssumption ==
  /\ Clients \cap (Daemons \cup {None, Leftover}) = {}
  /\ Carriers \subseteq Clients
  /\ Backlog \in Nat \ {0}

VARIABLES
  client,     \* the commands
  queue,      \* connections a daemon has yet to accept, of clients and probes
  serving,    \* the connection it has accepted
  got,        \* how much it has read of the frame, then the status to send
  fds,        \* whose descriptors it has received and not closed
  executed    \* ghost: how often a request was dispatched

connVars == <<client, queue, serving, got, fds, executed>>
socketVars == <<at, file, client, queue, serving, got, fds, executed>>

Amounts == {"none", "part", "all"}
Statuses == {"obeyed", "bad"}
Ends == {"answered", "failed"}

\* `sent`: what it has written of its frame; `answer`: the reply sent to it
Command ==
  [pc : {"idle", "connect", "send", "reply"} \cup Ends,
   peer : Daemons \cup {None}, sent : Amounts, answer : Statuses \cup {"none"}]

NewCommand ==
  [pc |-> "idle", peer |-> None, sent |-> "none", answer |-> "none"]

SocketInit ==
  /\ Init
  /\ client = [c \in Clients |-> NewCommand]
  /\ queue = [d \in Daemons |-> << >>]
  /\ serving = [d \in Daemons |-> None]
  /\ got = [d \in Daemons |-> "none"]
  /\ fds = [d \in Daemons |-> {}]
  /\ executed = [c \in Clients |-> 0]

-----------------------------------------------------------------------------
(* Connections.  A connection has the name of the command, or of the       *)
(* starting daemon, that made it.                                          *)

\* connect() waits for room in the queue, or for another file at the path
Room == Accepts(file) => Len(queue[file]) < Backlog

\* the daemon's end of a connection is open
Open(c) ==
  LET d == client[c].peer
  IN d # None /\ (serving[d] = c \/ \E i \in DOMAIN queue[d] : queue[d][i] = c)

\* a probe hangs up at once, and a command when it ends
HungUp(c) == c \in Clients => client[c].pc \in Ends

Written(c) == IF c \notin Clients THEN "none" ELSE client[c].sent

-----------------------------------------------------------------------------
(* sweetbg_client_raw_request.                                             *)

Invoke(c) ==
  /\ client[c].pc = "idle"
  /\ client' = [client EXCEPT ![c].pc = "connect"]
  /\ UNCHANGED <<at, file, queue, serving, got, fds, executed>>

Connect(c) ==
  /\ client[c].pc = "connect"
  /\ Room
  /\ IF Accepts(file)
     THEN /\ client' = [client EXCEPT ![c].pc = "send", ![c].peer = file]
          /\ queue' = [queue EXCEPT ![file] = Append(@, c)]
     ELSE /\ client' = [client EXCEPT ![c].pc = "failed"]
          /\ UNCHANGED queue
  /\ UNCHANGED <<at, file, serving, got, fds, executed>>

\* sendmsg may write a part of the frame; write_full writes the rest
Send(c) ==
  /\ client[c].pc = "send"
  /\ \/ /\ Open(c)
        /\ client' = [client EXCEPT ![c].pc = "reply", ![c].sent = "all"]
     \/ /\ Open(c) /\ client[c].sent = "none"
        /\ client' = [client EXCEPT ![c].sent = "part"]
     \/ /\ ~Open(c)
        /\ client' = [client EXCEPT ![c].pc = "failed"]
  /\ UNCHANGED <<at, file, queue, serving, got, fds, executed>>

\* a reply, or the end of the connection without one
Receive(c) ==
  /\ client[c].pc = "reply"
  /\ client[c].answer # "none" \/ ~Open(c)
  /\ client' = [client EXCEPT ![c].pc =
                  IF client[c].answer # "none" THEN "answered" ELSE "failed"]
  /\ UNCHANGED <<at, file, queue, serving, got, fds, executed>>

\* no reply within REPLY_TIMEOUT_MS
GiveUp(c) ==
  /\ client[c].pc = "reply"
  /\ client[c].answer = "none"
  /\ client' = [client EXCEPT ![c].pc = "failed"]
  /\ UNCHANGED <<at, file, queue, serving, got, fds, executed>>

Kill(c) ==
  /\ client[c].pc \in {"connect", "send", "reply"}
  /\ client' = [client EXCEPT ![c].pc = "failed"]
  /\ UNCHANGED <<at, file, queue, serving, got, fds, executed>>

-----------------------------------------------------------------------------
(* sweetbg_ipc_server_handle and sweetbg_ipc_recv_frame.                   *)

Accept(d) ==
  /\ at[d] = "serve" /\ serving[d] = None
  /\ queue[d] # << >>
  /\ serving' = [serving EXCEPT ![d] = Head(queue[d])]
  /\ queue' = [queue EXCEPT ![d] = Tail(@)]
  /\ UNCHANGED <<at, file, client, got, fds, executed>>

Read(d) ==
  LET c == serving[d]
  IN /\ c # None
     /\ got[d] \in Amounts /\ got[d] # Written(c)
     /\ got' = [got EXCEPT ![d] = Written(c)]
     /\ fds' = IF got[d] = "none" /\ c \in Carriers
               THEN [fds EXCEPT ![d] = @ \cup {c}] ELSE fds
     /\ UNCHANGED <<at, file, client, queue, serving, executed>>

\* mutant: the payload is not waited for
CompleteHeader(amount) == amount \in Amounts \ {"none"}

Complete(amount) == amount = "all"

Execute(d) ==
  LET c == serving[d]
  IN /\ c # None
     /\ Complete(got[d])
     /\ executed' = [executed EXCEPT ![c] = @ + 1]
     /\ got' = [got EXCEPT ![d] = "obeyed"]
     /\ UNCHANGED <<at, file, client, queue, serving, fds>>

\* mutant: a read ends with the connection, but has no deadline
EndsAtHangUp(c) == HungUp(c)

\* nothing to read: the connection has ended, or the deadline passes
EndsEarly(c) == c # None

\* mutant: the descriptor of a frame that is refused stays open
KeptOnFailure(d) == fds[d]

ClosedOnFailure(d) == {}

Refuse(d) ==
  LET c == serving[d]
  IN /\ c # None
     /\ got[d] \in {"none", "part"} /\ got[d] = Written(c)
     /\ EndsEarly(c)
     /\ got' = [got EXCEPT ![d] = "bad"]
     /\ fds' = [fds EXCEPT ![d] = ClosedOnFailure(d)]
     /\ UNCHANGED <<at, file, client, queue, serving, executed>>

\* a reply to a command that has ended goes nowhere; the descriptor of a
\* request that was obeyed is closed here, with the connection
Reply(d) ==
  LET c == serving[d]
  IN /\ c # None
     /\ got[d] \in Statuses
     /\ client' = IF HungUp(c) THEN client ELSE [client EXCEPT ![c].answer = got[d]]
     /\ fds' = [fds EXCEPT ![d] = IF got[d] = "obeyed" THEN @ \ {c} ELSE @]
     /\ serving' = [serving EXCEPT ![d] = None]
     /\ got' = [got EXCEPT ![d] = "none"]
     /\ UNCHANGED <<at, file, queue, executed>>

-----------------------------------------------------------------------------
(* The life of a daemon.  A probe is a connection to the daemon it finds.  *)

\* mutant: connections that nobody will accept are kept
Unaccepted(d) == UNCHANGED queue

Reset(d) == queue' = [queue EXCEPT ![d] = << >>]

ProbeRoom(d) ==
  /\ Probe(d)
  /\ Room
  /\ queue' = IF Accepts(file) THEN [queue EXCEPT ![file] = Append(@, d)] ELSE queue
  /\ UNCHANGED <<client, serving, got, fds, executed>>

Prepare(d) ==
  /\ Start(d) \/ UnlinkStale(d) \/ Bind(d) \/ Chmod(d) \/ Listen(d) \/ Undo(d) \/ Remove(d)
  /\ UNCHANGED connVars

\* between two requests
Stop(d) ==
  /\ Finish(d)
  /\ serving[d] = None
  /\ UNCHANGED connVars

Close(d) ==
  /\ CloseSocket(d)
  /\ Reset(d)
  /\ UNCHANGED <<client, serving, got, fds, executed>>

Die(d) ==
  /\ Crash(d)
  /\ Reset(d)
  /\ serving' = [serving EXCEPT ![d] = None]
  /\ got' = [got EXCEPT ![d] = "none"]
  /\ fds' = [fds EXCEPT ![d] = {}]
  /\ UNCHANGED <<client, executed>>

Handle(d) == Accept(d) \/ Read(d) \/ Execute(d) \/ Refuse(d) \/ Reply(d)
Sweetbg(c) == Invoke(c) \/ Connect(c) \/ Send(c) \/ Receive(c) \/ GiveUp(c) \/ Kill(c)
Live(d) == ProbeRoom(d) \/ Prepare(d) \/ Stop(d) \/ Close(d) \/ Die(d)

SocketNext ==
  \/ \E c \in Clients : Sweetbg(c)
  \/ \E d \in Daemons : Handle(d) \/ Live(d)

SocketSpec == SocketInit /\ [][SocketNext]_socketVars

\* A daemon that is not stopped handles what has come and makes the calls of
\* its start and end; the kernel lets commands connect and tells them of
\* replies.  Commands may stop at any time, and need no deadline.
FairSocketSpec ==
  /\ SocketSpec
  /\ \A d \in Daemons :
       /\ WF_socketVars(Handle(d))
       /\ WF_socketVars(ProbeRoom(d) \/ (at[d] # "off" /\ Prepare(d)) \/ Close(d))
  /\ \A c \in Clients : WF_socketVars(Connect(c)) /\ WF_socketVars(Receive(c))

-----------------------------------------------------------------------------
(* Properties.                                                             *)

\* Types; a process that does not listen has no connections.
ConnectionsOK ==
  /\ client \in [Clients -> Command]
  /\ got \in [Daemons -> Amounts \cup Statuses]
  /\ executed \in [Clients -> Nat]
  /\ \A d \in Daemons :
       /\ queue[d] \in Seq(Clients \cup Daemons) /\ Len(queue[d]) <= Backlog
       /\ serving[d] \in Clients \cup Daemons \cup {None}
       /\ fds[d] \subseteq Carriers
       /\ ~Accepts(d) => queue[d] = << >> /\ serving[d] = None

\* A request is obeyed at most once, and only as a whole, however its
\* command and other daemons fail; a command that is told its request was
\* bad, or that could not write all of it, may try again: nothing was done.
AnswersAreTrue ==
  \A c \in Clients :
    /\ executed[c] <= (IF client[c].sent = "all" THEN 1 ELSE 0)
    /\ client[c].answer = "obeyed" => executed[c] = 1
    /\ client[c].answer = "bad" => executed[c] = 0

\* Images that were received are closed with their connection: between two
\* requests a daemon holds none, and while it reads one at most that one's.
DescriptorsClosed == \A d \in Daemons : fds[d] \subseteq {serving[d]}

\* The only thread comes back to the compositor from every connection, also
\* of a command that is stopped in the middle of its frame.
LoopComesBack == \A d \in Daemons : serving[d] # None ~> serving[d] = None

\* No command hangs: one that waits in connect, or for its reply, ends even
\* if the daemon stops or dies, or the commands before it say nothing.
CommandsEnd ==
  \A c \in Clients :
    client[c].pc \in {"connect", "reply"} ~> client[c].pc \notin {"connect", "reply"}
=============================================================================

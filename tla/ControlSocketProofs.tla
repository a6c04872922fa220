-------------------------- MODULE ControlSocketProofs --------------------------
(* Requests for any number of commands and daemons.                         *)
EXTENDS ControlSocket, SocketLifecycleProofs

-----------------------------------------------------------------------------
(* With connections, the socket file is what it is without.                 *)

LEMMA StepOfLifecycle == [SocketNext]_socketVars => [Next]_vars
<1> SUFFICES ASSUME [SocketNext]_socketVars PROVE [Next]_vars
  OBVIOUS
<1>1. CASE UNCHANGED socketVars
  BY <1>1 DEF socketVars, vars
<1>2. ASSUME NEW c \in Clients, Sweetbg(c) PROVE UNCHANGED vars
  BY <1>2 DEF Sweetbg, Invoke, Connect, Send, Receive, GiveUp, Kill, vars
<1>3. ASSUME NEW d \in Daemons, Handle(d) PROVE UNCHANGED vars
  BY <1>3 DEF Handle, Accept, Read, Execute, Refuse, Reply, vars
<1>4. ASSUME NEW d \in Daemons, Live(d) PROVE Next
  <2>1. Start(d) \/ Proceed(d) \/ Finish(d) \/ Crash(d)
    BY <1>4 DEF Live, ProbeRoom, Prepare, Stop, Close, Die, Proceed
  <2>2. QED  BY <2>1 DEF Next
<1>5. QED  BY <1>1, <1>2, <1>3, <1>4 DEF SocketNext

\* Whatever commands do and wait for, daemons start, stop and crash as in
\* SocketLifecycle: a full queue may delay a start, and nothing else.
THEOREM ImplementsLifecycle == SocketSpec => Spec
<1>1. SocketInit => Init
  BY DEF SocketInit
<1>2. QED  BY <1>1, StepOfLifecycle, PTL DEF SocketSpec, Spec

\* So only a crash leaves a socket file behind, also under load.
COROLLARY NoFileLeftUnderLoad == SocketSpec => []StaleOnlyByCrash
BY ImplementsLifecycle, NoFileLeftBehind, PTL

-----------------------------------------------------------------------------
(* Queues.                                                                  *)

In(x, s) == \E i \in DOMAIN s : s[i] = x
Distinct(s) == \A i, j \in DOMAIN s : s[i] \in Clients /\ s[i] = s[j] => i = j

LEMMA InAppend ==
  ASSUME NEW S, NEW s \in Seq(S), NEW e \in S
  PROVE  \A x : In(x, Append(s, e)) <=> In(x, s) \/ x = e
<1>1. DOMAIN Append(s, e) = DOMAIN s \cup {Len(s) + 1} /\ Append(s, e)[Len(s) + 1] = e
  OBVIOUS
<1>2. \A i \in DOMAIN s : Append(s, e)[i] = s[i]
  OBVIOUS
<1>3. QED  BY <1>1, <1>2 DEF In

LEMMA DistinctAppend ==
  ASSUME NEW S, NEW s \in Seq(S), NEW e \in S, Distinct(s), e \in Clients => ~In(e, s)
  PROVE  Distinct(Append(s, e))
<1>1. DOMAIN Append(s, e) = DOMAIN s \cup {Len(s) + 1} /\ Append(s, e)[Len(s) + 1] = e
  OBVIOUS
<1>2. \A i \in DOMAIN s : Append(s, e)[i] = s[i]
  OBVIOUS
<1>3. QED  BY <1>1, <1>2 DEF In, Distinct

LEMMA TailFacts ==
  ASSUME NEW S, NEW s \in Seq(S), s # << >>, Distinct(s)
  PROVE  /\ Tail(s) \in Seq(S) /\ Distinct(Tail(s))
         /\ Head(s) \in S /\ In(Head(s), s)
         /\ \A x : In(x, Tail(s)) => In(x, s)
         /\ Head(s) \in Clients => ~In(Head(s), Tail(s))
<1>1. /\ Tail(s) \in Seq(S) /\ Len(Tail(s)) = Len(s) - 1
      /\ \A i \in DOMAIN Tail(s) : i + 1 \in DOMAIN s /\ Tail(s)[i] = s[i + 1] /\ i + 1 # 1
  OBVIOUS
<1>2. 1 \in DOMAIN s /\ Head(s) = s[1] /\ Head(s) \in S
  OBVIOUS
<1>3. Distinct(Tail(s))
  <2> SUFFICES ASSUME NEW i \in DOMAIN Tail(s), NEW j \in DOMAIN Tail(s),
                      Tail(s)[i] \in Clients, Tail(s)[i] = Tail(s)[j]
               PROVE  i = j
    BY DEF Distinct
  <2>1. i + 1 = j + 1
    BY <1>1 DEF Distinct
  <2>2. QED  BY <1>1, <2>1
<1>4. QED  BY <1>1, <1>2, <1>3 DEF In, Distinct
-----------------------------------------------------------------------------
(* Requests.                                                                *)

Connections == Clients \cup Daemons

Types ==
  /\ client \in [Clients -> Command]
  /\ queue \in [Daemons -> Seq(Connections)]
  /\ serving \in [Daemons -> Connections \cup {None}]
  /\ got \in [Daemons -> Amounts \cup Statuses]
  /\ executed \in [Clients -> Nat]

Untouched(c) == executed[c] = 0 /\ client[c].answer = "none"
Linked(c, d) == client[c].peer = d /\ client[c].pc \notin {"idle", "connect"}

\* a connection waits untouched, and is obeyed at most once when it is served
QueueInv(c, d) == In(c, queue[d]) => Linked(c, d) /\ serving[d] # c /\ Untouched(c)
ServeInv(c, d) ==
  serving[d] = c =>
    /\ Linked(c, d) /\ client[c].answer = "none"
    /\ got[d] \in {"none", "part", "bad"} => executed[c] = 0
    /\ got[d] = "all" => executed[c] = 0 /\ client[c].sent = "all"
    /\ got[d] = "obeyed" => executed[c] = 1 /\ client[c].sent = "all"

DaemonInv(d) == Distinct(queue[d]) /\ (serving[d] = None => got[d] = "none")
ClientInv(c) == client[c].pc \in {"idle", "connect"} => Untouched(c)
True(c) ==
  /\ executed[c] <= (IF client[c].sent = "all" THEN 1 ELSE 0)
  /\ client[c].answer = "obeyed" => executed[c] = 1
  /\ client[c].answer = "bad" => executed[c] = 0

IInv ==
  /\ Types
  /\ \A d \in Daemons : DaemonInv(d)
  /\ \A c \in Clients : ClientInv(c) /\ True(c)
  /\ \A c \in Clients, d \in Daemons : QueueInv(c, d) /\ ServeInv(c, d)

LEMMA InitialInv == SocketInit => IInv
<1> SUFFICES ASSUME SocketInit PROVE IInv
  OBVIOUS
<1>1. Types
  BY DEF SocketInit, Types, Command, NewCommand, Amounts, Statuses, Connections
<1>2. \A d \in Daemons : DaemonInv(d) /\ \A x : ~In(x, queue[d])
  BY DEF SocketInit, DaemonInv, Distinct, In
<1>3. \A c \in Clients : ClientInv(c) /\ True(c)
  BY DEF SocketInit, NewCommand, ClientInv, True, Untouched
<1>4. \A c \in Clients, d \in Daemons : serving[d] # c
  BY ConnectionAssumption DEF SocketInit
<1>5. QED  BY <1>1, <1>2, <1>3, <1>4 DEF IInv, QueueInv, ServeInv

\* Steps of a command after which its connection is what it was.
Continues(b) ==
  /\ client'[b].peer = client[b].peer
  /\ client'[b].answer = client[b].answer
  /\ client[b].sent = "all" => client'[b].sent = "all"
  /\ client[b].pc \notin {"idle", "connect"} => client'[b].pc \notin {"idle", "connect"}
  /\ client[b].pc \in {"idle", "connect"} => Untouched(b)

LEMMA CommandKeepsInv ==
  ASSUME IInv, NEW c \in Clients, Invoke(c) \/ Send(c) \/ Receive(c) \/ GiveUp(c) \/ Kill(c)
  PROVE  IInv'
<1> USE DEF Command
<1>1. UNCHANGED <<queue, serving, got, fds, executed>>
  BY DEF Invoke, Send, Receive, GiveUp, Kill
<1>2. client \in [Clients -> Command] /\ \A b \in Clients : ClientInv(b)
  BY DEF IInv, Types
<1>3. ASSUME NEW pc \in {"connect", "failed", "answered"},
             client' = [client EXCEPT ![c].pc = pc],
             pc = "connect" => client[c].pc = "idle"
      PROVE  client' \in [Clients -> Command] /\ \A b \in Clients : Continues(b)
  BY <1>2, <1>3 DEF Continues, ClientInv, Ends
<1>4. ASSUME Send(c)
      PROVE  client' \in [Clients -> Command] /\ \A b \in Clients : Continues(b)
  <2>1. CASE client' = [client EXCEPT ![c].pc = "reply", ![c].sent = "all"]
    BY <1>2, <1>4, <2>1 DEF Send, Continues, ClientInv, Amounts
  <2>2. CASE client[c].sent = "none" /\ client' = [client EXCEPT ![c].sent = "part"]
    BY <1>2, <1>4, <2>2 DEF Send, Continues, ClientInv, Amounts
  <2>3. CASE client' = [client EXCEPT ![c].pc = "failed"]
    BY <1>3, <2>3
  <2>4. QED  BY <1>4, <2>1, <2>2, <2>3 DEF Send
<1>5. client' \in [Clients -> Command] /\ \A b \in Clients : Continues(b)
  <2>1. CASE Invoke(c)
    BY <1>3, <2>1 DEF Invoke
  <2>2. CASE Receive(c)
    BY <1>3, <2>2 DEF Receive
  <2>3. CASE GiveUp(c) \/ Kill(c)
    BY <1>3, <2>3 DEF GiveUp, Kill
  <2>4. QED  BY <1>4, <2>1, <2>2, <2>3
<1>6. Types'
  BY <1>1, <1>5 DEF IInv, Types
<1>7. \A d \in Daemons : DaemonInv(d)'
  BY <1>1 DEF IInv, DaemonInv, Distinct
<1>8. ASSUME NEW b \in Clients PROVE ClientInv(b)' /\ True(b)'
  <2>1. Continues(b) /\ ClientInv(b) /\ True(b) /\ executed' = executed
    BY <1>1, <1>5 DEF IInv
  <2>2. executed[b] \in Nat
    BY DEF IInv, Types
  <2>3. QED  BY <2>1, <2>2 DEF Continues, ClientInv, True, Untouched
<1>9. ASSUME NEW b \in Clients, NEW d \in Daemons PROVE QueueInv(b, d)' /\ ServeInv(b, d)'
  <2>1. Continues(b) /\ QueueInv(b, d) /\ ServeInv(b, d)
    BY <1>5 DEF IInv
  <2>2. In(b, queue[d])' = In(b, queue[d])
    BY <1>1 DEF In
  <2>3. QED  BY <1>1, <2>1, <2>2 DEF Continues, QueueInv, ServeInv, Linked, Untouched
<1>10. QED  BY <1>6, <1>7, <1>8, <1>9 DEF IInv

LEMMA ConnectKeepsInv ==
  ASSUME IInv, NEW c \in Clients, Connect(c) PROVE IInv'
<1>1. /\ client[c].pc = "connect" /\ Untouched(c)
      /\ UNCHANGED <<serving, got, fds, executed>>
  BY DEF Connect, IInv, ClientInv
<1>2. \A d \in Daemons : ~In(c, queue[d]) /\ serving[d] # c
  BY <1>1 DEF IInv, QueueInv, ServeInv, Linked
<1>3. CASE ~Accepts(file)
  <2>1. client' = [client EXCEPT ![c].pc = "failed"] /\ UNCHANGED queue
    BY <1>3 DEF Connect
  <2>2. /\ client' \in [Clients -> Command]
        /\ \A b \in Clients : /\ client'[b].peer = client[b].peer
                              /\ client'[b].answer = client[b].answer
                              /\ client'[b].sent = client[b].sent
                              /\ client'[b].pc = IF b = c THEN "failed" ELSE client[b].pc
    BY <2>1 DEF IInv, Types, Command, Ends
  <2>3. Types' /\ \A d \in Daemons : DaemonInv(d)'
    BY <1>1, <2>1, <2>2 DEF IInv, Types, DaemonInv, Distinct
  <2>4. ASSUME NEW b \in Clients PROVE ClientInv(b)' /\ True(b)'
    BY <1>1, <2>2 DEF IInv, ClientInv, True, Untouched
  <2>5. ASSUME NEW b \in Clients, NEW d \in Daemons PROVE QueueInv(b, d)' /\ ServeInv(b, d)'
    BY <1>1, <2>1, <2>2 DEF IInv, QueueInv, ServeInv, Linked, Untouched, In
  <2>6. QED  BY <2>3, <2>4, <2>5 DEF IInv
<1>4. CASE Accepts(file)
  <2>1. /\ file \in Daemons
        /\ client' = [client EXCEPT ![c].pc = "send", ![c].peer = file]
        /\ queue' = [queue EXCEPT ![file] = Append(@, c)]
    BY <1>4 DEF Connect, Accepts
  <2>2. /\ client' \in [Clients -> Command]
        /\ \A b \in Clients : /\ client'[b].peer = IF b = c THEN file ELSE client[b].peer
                              /\ client'[b].answer = client[b].answer
                              /\ client'[b].sent = client[b].sent
                              /\ client'[b].pc = IF b = c THEN "send" ELSE client[b].pc
    BY <2>1 DEF IInv, Types, Command
  <2>3. \A d \in Daemons : queue[d] \in Seq(Connections) /\ c \in Connections
    BY DEF IInv, Types, Connections
  <2>4. /\ queue' \in [Daemons -> Seq(Connections)]
        /\ \A d \in Daemons : queue'[d] = IF d = file THEN Append(queue[d], c) ELSE queue[d]
    BY <2>1, <2>3 DEF IInv, Types
  <2>5. \A d \in Daemons, b \in Clients : In(b, queue'[d]) <=> In(b, queue[d]) \/ (d = file /\ b = c)
    <3> SUFFICES ASSUME NEW d \in Daemons, NEW b \in Clients
                 PROVE  In(b, queue'[d]) <=> In(b, queue[d]) \/ (d = file /\ b = c)
      OBVIOUS
    <3>1. \A x : In(x, Append(queue[d], c)) <=> In(x, queue[d]) \/ x = c
      BY <2>3, InAppend
    <3>2. QED  BY <2>4, <3>1
  <2>6. ASSUME NEW d \in Daemons PROVE DaemonInv(d)'
    <3>1. Distinct(queue[d]) /\ ~In(c, queue[d])
      BY <1>2 DEF IInv, DaemonInv
    <3>2. Distinct(Append(queue[d], c))
      BY <2>3, <3>1, DistinctAppend
    <3>3. Distinct(queue'[d])
      BY <2>4, <3>1, <3>2
    <3>4. QED  BY <1>1, <3>3 DEF IInv, DaemonInv, Distinct
  <2>7. Types'
    BY <1>1, <2>2, <2>4 DEF IInv, Types
  <2>8. ASSUME NEW b \in Clients PROVE ClientInv(b)' /\ True(b)'
    BY <1>1, <2>2 DEF IInv, ClientInv, True, Untouched
  <2>9. ASSUME NEW b \in Clients, NEW d \in Daemons PROVE QueueInv(b, d)' /\ ServeInv(b, d)'
    <3>1. In(b, queue[d])' => In(b, queue[d]) \/ (d = file /\ b = c)
      BY <2>5 DEF In
    <3>2. QueueInv(b, d) /\ ServeInv(b, d)
      BY DEF IInv
    <3>3. CASE b = c
      BY <1>1, <1>2, <2>2, <3>1, <3>3 DEF QueueInv, ServeInv, Linked, Untouched
    <3>4. CASE b # c
      BY <1>1, <2>2, <3>1, <3>2, <3>4 DEF QueueInv, ServeInv, Linked, Untouched
    <3>5. QED  BY <3>3, <3>4
  <2>10. QED  BY <2>6, <2>7, <2>8, <2>9 DEF IInv
<1>5. QED  BY <1>3, <1>4

LEMMA NamesApart ==
  /\ \A c \in Clients, d \in Daemons : c # d
  /\ \A c \in Connections : c # None
BY ConnectionAssumption, SocketAssumption DEF Connections

LEMMA AcceptKeepsInv ==
  ASSUME IInv, NEW d \in Daemons, Accept(d) PROVE IInv'
<1> DEFINE c == Head(queue[d])
<1>1. /\ queue[d] \in Seq(Connections) /\ queue[d] # << >> /\ Distinct(queue[d])
      /\ serving[d] = None /\ got[d] = "none"
      /\ UNCHANGED <<client, got, executed>>
  BY DEF IInv, Types, DaemonInv, Accept
<1>2. /\ Tail(queue[d]) \in Seq(Connections) /\ Distinct(Tail(queue[d]))
      /\ c \in Connections /\ In(c, queue[d])
      /\ \A x : In(x, Tail(queue[d])) => In(x, queue[d])
      /\ c \in Clients => ~In(c, Tail(queue[d]))
  BY <1>1, TailFacts
<1>3. /\ queue' = [queue EXCEPT ![d] = Tail(@)]
      /\ serving' = [serving EXCEPT ![d] = c]
  BY DEF Accept
<1> HIDE DEF c
<1>4. /\ queue' \in [Daemons -> Seq(Connections)]
      /\ \A e \in Daemons : queue'[e] = IF e = d THEN Tail(queue[d]) ELSE queue[e]
      /\ serving' \in [Daemons -> Connections \cup {None}]
      /\ \A e \in Daemons : serving'[e] = IF e = d THEN c ELSE serving[e]
  BY <1>2, <1>3 DEF IInv, Types
<1>5. Types'
  BY <1>1, <1>4 DEF IInv, Types
<1>6. ASSUME NEW e \in Daemons PROVE DaemonInv(e)'
  <2>1. DaemonInv(e)
    BY DEF IInv
  <2>2. Distinct(queue'[e])
    BY <1>2, <1>4, <2>1 DEF DaemonInv
  <2>3. serving'[e] = None => got'[e] = "none"
    BY <1>1, <1>4, <2>1 DEF DaemonInv
  <2>4. QED  BY <2>2, <2>3 DEF DaemonInv, Distinct
<1>7. ASSUME NEW b \in Clients PROVE ClientInv(b)' /\ True(b)'
  BY <1>1 DEF IInv, ClientInv, True, Untouched
<1>8. ASSUME NEW b \in Clients, NEW e \in Daemons PROVE QueueInv(b, e)' /\ ServeInv(b, e)'
  <2>1. QueueInv(b, e) /\ ServeInv(b, e) /\ QueueInv(b, d)
    BY DEF IInv
  <2>2. In(b, queue[e])' => In(b, queue[e]) /\ (e = d => b # c)
    <3>1. In(b, queue[e])' <=> In(b, queue'[e])
      BY DEF In
    <3>2. QED  BY <1>2, <1>4, <3>1
  <2>3. CASE e = d /\ b = c
    BY <1>1, <1>2, <1>4, <2>1, <2>2, <2>3 DEF QueueInv, ServeInv, Linked, Untouched
  <2>4. CASE ~(e = d /\ b = c)
    BY <1>1, <1>4, <2>1, <2>2, <2>4 DEF QueueInv, ServeInv, Linked, Untouched
  <2>5. QED  BY <2>3, <2>4
<1>9. QED  BY <1>5, <1>6, <1>7, <1>8 DEF IInv

\* Steps that only change what a daemon has read of the frame it serves.
LEMMA FrameKeepsInv ==
  ASSUME IInv, NEW d \in Daemons, Read(d) \/ Refuse(d) PROVE IInv'
<1> DEFINE c == serving[d]
<1>1. /\ c # None /\ got[d] \in Amounts
      /\ UNCHANGED <<client, queue, serving, executed>>
  BY DEF Read, Refuse, Amounts
<1>2. PICK s \in Amounts \cup Statuses :
        /\ got' = [got EXCEPT ![d] = s]
        /\ s = "bad" => got[d] \in {"none", "part"}
        /\ s # "bad" => s = Written(c) /\ got[d] # s
        /\ s \in Amounts \cup {"bad"}
  <2>1. CASE Read(d)
    <3>1. Written(c) \in Amounts
      BY DEF Written, IInv, Types, Command, Amounts
    <3>2. QED  BY <2>1, <3>1 DEF Read, Amounts
  <2>2. CASE Refuse(d)
    BY <2>2 DEF Refuse, Amounts, Statuses
  <2>3. QED  BY <2>1, <2>2
<1>3. /\ got' \in [Daemons -> Amounts \cup Statuses]
      /\ \A e \in Daemons : got'[e] = IF e = d THEN s ELSE got[e]
  BY <1>2 DEF IInv, Types
<1>4. Types'
  BY <1>1, <1>3 DEF IInv, Types
<1>5. ASSUME NEW e \in Daemons PROVE DaemonInv(e)'
  BY <1>1, <1>3 DEF IInv, DaemonInv, Distinct
<1>6. ASSUME NEW b \in Clients PROVE ClientInv(b)' /\ True(b)'
  BY <1>1 DEF IInv, ClientInv, True, Untouched
<1>7. ASSUME NEW b \in Clients, NEW e \in Daemons PROVE QueueInv(b, e)' /\ ServeInv(b, e)'
  <2>1. QueueInv(b, e) /\ ServeInv(b, e)
    BY DEF IInv
  <2>2. QueueInv(b, e)'
    BY <1>1, <2>1 DEF QueueInv, Linked, Untouched, In
  <2>3. CASE e # d \/ serving[e] # b
    <3>1. ServeInv(b, e)'
      BY <1>1, <1>3, <2>1, <2>3 DEF ServeInv, Linked
    <3>2. QED  BY <2>2, <3>1
  <2>4. CASE e = d /\ serving[e] = b
    <3>1. got[d] \in {"none", "part", "bad"} => executed[b] = 0
      BY <2>1, <2>4 DEF ServeInv
    <3>2. s # "bad" => s = client[b].sent
      BY <1>2, <2>4 DEF Written
    <3>3. executed[b] = 0 /\ (s = "all" => client[b].sent = "all") /\ s # "obeyed"
      BY <1>1, <1>2, <2>1, <2>4, <3>1, <3>2 DEF Amounts, ServeInv
    <3>4. ServeInv(b, e)'
      BY <1>1, <1>3, <2>1, <2>4, <3>3 DEF ServeInv, Linked
    <3>5. QED  BY <2>2, <3>4
  <2>5. QED  BY <2>3, <2>4
<1>8. QED  BY <1>4, <1>5, <1>6, <1>7 DEF IInv

LEMMA ExecuteKeepsInv ==
  ASSUME IInv, NEW d \in Daemons, Execute(d) PROVE IInv'
<1> DEFINE c == serving[d]
<1>1. /\ c # None /\ got[d] = "all"
      /\ got' = [got EXCEPT ![d] = "obeyed"]
      /\ executed' = [executed EXCEPT ![c] = @ + 1]
      /\ UNCHANGED <<client, queue, serving>>
  BY DEF Execute, Complete
<1>2. /\ got' \in [Daemons -> Amounts \cup Statuses]
      /\ \A e \in Daemons : got'[e] = IF e = d THEN "obeyed" ELSE got[e]
      /\ executed' \in [Clients -> Nat]
      /\ \A b \in Clients : executed'[b] = IF b = c THEN executed[b] + 1 ELSE executed[b]
  <2>1. executed \in [Clients -> Nat] /\ got \in [Daemons -> Amounts \cup Statuses]
    BY DEF IInv, Types
  <2> HIDE DEF c
  <2>2. /\ executed' \in [Clients -> Nat]
        /\ \A b \in Clients : executed'[b] = IF b = c THEN executed[b] + 1 ELSE executed[b]
    <3>1. CASE c \in Clients
      BY <1>1, <2>1, <3>1
    <3>2. CASE c \notin Clients
      <4>1. executed' = executed
        BY <1>1, <2>1, <3>2
      <4>2. QED  BY <2>1, <3>2, <4>1
    <3>3. QED  BY <3>1, <3>2
  <2>3. QED  BY <1>1, <2>1, <2>2 DEF Statuses
<1>3. Types'
  BY <1>1, <1>2 DEF IInv, Types
<1>4. ASSUME NEW e \in Daemons PROVE DaemonInv(e)'
  BY <1>1, <1>2 DEF IInv, DaemonInv, Distinct
<1>5. c \in Clients => /\ Linked(c, d) /\ client[c].answer = "none"
                       /\ executed[c] = 0 /\ client[c].sent = "all"
  BY <1>1 DEF IInv, ServeInv
<1>6. ASSUME NEW b \in Clients PROVE ClientInv(b)' /\ True(b)'
  <2>1. CASE b = c
    BY <1>1, <1>2, <1>5, <2>1 DEF ClientInv, True, Linked
  <2>2. CASE b # c
    BY <1>1, <1>2, <2>2 DEF IInv, ClientInv, True, Untouched
  <2>3. QED  BY <2>1, <2>2
<1>7. ASSUME NEW b \in Clients, NEW e \in Daemons PROVE QueueInv(b, e)' /\ ServeInv(b, e)'
  <2>1. QueueInv(b, e) /\ ServeInv(b, e)
    BY DEF IInv
  <2>2. In(b, queue[e])' = In(b, queue[e])
    BY <1>1 DEF In
  <2>3. CASE b # c
    <3>1. executed'[b] = executed[b]
      BY <1>2, <2>3
    <3>2. e # d \/ serving[e] # b
      BY <2>3
    <3>3. QED  BY <1>1, <1>2, <2>1, <2>2, <3>1, <3>2 DEF QueueInv, ServeInv, Linked, Untouched
  <2>4. CASE b = c /\ e # d
    BY <1>1, <1>5, <2>1, <2>2, <2>4 DEF QueueInv, ServeInv, Linked
  <2>5. CASE b = c /\ e = d
    BY <1>1, <1>2, <1>5, <2>1, <2>2, <2>5 DEF QueueInv, ServeInv, Linked
  <2>6. QED  BY <2>3, <2>4, <2>5
<1>8. QED  BY <1>3, <1>4, <1>6, <1>7 DEF IInv

LEMMA ReplyKeepsInv ==
  ASSUME IInv, NEW d \in Daemons, Reply(d) PROVE IInv'
<1> DEFINE c == serving[d]
<1>1. /\ c # None /\ got[d] \in Statuses
      /\ got' = [got EXCEPT ![d] = "none"]
      /\ serving' = [serving EXCEPT ![d] = None]
      /\ client' = IF HungUp(c) THEN client ELSE [client EXCEPT ![c].answer = got[d]]
      /\ UNCHANGED <<queue, executed>>
  BY DEF Reply
<1>2. /\ got' \in [Daemons -> Amounts \cup Statuses]
      /\ serving' \in [Daemons -> Connections \cup {None}]
      /\ \A e \in Daemons : /\ got'[e] = IF e = d THEN "none" ELSE got[e]
                            /\ serving'[e] = IF e = d THEN None ELSE serving[e]
  BY <1>1 DEF IInv, Types, Amounts
<1>3. /\ client' \in [Clients -> Command]
      /\ \A b \in Clients :
           /\ client'[b].pc = client[b].pc /\ client'[b].peer = client[b].peer
           /\ client'[b].sent = client[b].sent
           /\ client'[b].answer = client[b].answer \/ (b = c /\ client'[b].answer = got[d])
  <2>1. CASE HungUp(c)
    BY <1>1, <2>1 DEF IInv, Types
  <2>2. CASE ~HungUp(c)
    BY <1>1, <2>2 DEF HungUp, IInv, Types, Command
  <2>3. QED  BY <2>1, <2>2
<1>4. Types'
  BY <1>1, <1>2, <1>3 DEF IInv, Types
<1>5. ASSUME NEW e \in Daemons PROVE DaemonInv(e)'
  BY <1>1, <1>2 DEF IInv, DaemonInv, Distinct
<1>6. c \in Clients => /\ Linked(c, d)
                       /\ got[d] = "bad" => executed[c] = 0
                       /\ got[d] = "obeyed" => executed[c] = 1
  BY <1>1 DEF IInv, ServeInv
<1>7. ASSUME NEW b \in Clients PROVE ClientInv(b)' /\ True(b)'
  <2>1. ClientInv(b) /\ True(b)
    BY DEF IInv
  <2>2. CASE client'[b].answer = client[b].answer
    BY <1>1, <1>3, <2>1, <2>2 DEF ClientInv, True, Untouched
  <2>3. CASE b = c /\ client'[b].answer = got[d]
    BY <1>1, <1>3, <1>6, <2>1, <2>3 DEF ClientInv, True, Linked
  <2>4. QED  BY <1>3, <2>2, <2>3
<1>8. ASSUME NEW b \in Clients, NEW e \in Daemons PROVE QueueInv(b, e)' /\ ServeInv(b, e)'
  <2>1. QueueInv(b, e) /\ ServeInv(b, e)
    BY DEF IInv
  <2>2. In(b, queue[e])' = In(b, queue[e])
    BY <1>1 DEF In
  <2>3. serving'[e] # b \/ (serving[e] = b /\ e # d)
    BY <1>2, NamesApart DEF Connections
  <2>4. CASE b # c
    <3>1. client'[b].answer = client[b].answer
      BY <1>3, <2>4
    <3>2. QED
      BY <1>1, <1>2, <1>3, <2>1, <2>2, <2>3, <2>4, <3>1
      DEF QueueInv, ServeInv, Linked, Untouched
  <2>5. CASE b = c
    <3>1. e # d => ~Linked(b, e)
      BY <1>6, <2>5 DEF Linked
    <3>2. ~In(b, queue[e])
      BY <2>1, <2>5, <3>1 DEF QueueInv
    <3>3. serving'[e] # b
      BY <2>1, <2>3, <3>1 DEF ServeInv
    <3>4. QED  BY <2>2, <3>2, <3>3 DEF QueueInv, ServeInv
  <2>6. QED  BY <2>4, <2>5
<1>9. QED  BY <1>4, <1>5, <1>7, <1>8 DEF IInv

\* Steps that only add a probe to a queue, or drop connections.
LEMMA LiveKeepsInv ==
  ASSUME IInv, NEW d \in Daemons, Live(d) PROVE IInv'
<1> DEFINE Fewer == \A b \in Clients, e \in Daemons :
                      In(b, queue'[e]) => In(b, queue[e])
           Served == \A e \in Daemons :
                       /\ serving'[e] \in {serving[e], None}
                       /\ serving'[e] = serving[e] => got'[e] = got[e]
                       /\ serving'[e] = None => got'[e] = "none"
           Lined == /\ queue' \in [Daemons -> Seq(Connections)]
                    /\ \A e \in Daemons : Distinct(queue'[e])
<1>1. UNCHANGED <<client, executed>>
  BY DEF Live, ProbeRoom, Prepare, Stop, Close, Die, connVars
<1>2. queue \in [Daemons -> Seq(Connections)] /\ \A e \in Daemons : Distinct(queue[e])
  BY DEF IInv, Types, DaemonInv
<1>3. UNCHANGED <<serving, got>> => \A e \in Daemons :
         serving'[e] = serving[e] /\ got'[e] = got[e] /\ (serving'[e] = None => got'[e] = "none")
  BY DEF IInv, DaemonInv
<1>4. /\ Lined /\ Fewer /\ Served
      /\ serving' \in [Daemons -> Connections \cup {None}]
      /\ got' \in [Daemons -> Amounts \cup Statuses]
  <2>1. ASSUME UNCHANGED queue PROVE Lined /\ Fewer
    BY <1>2, <2>1
  <2>2. ASSUME Reset(d)
        PROVE  Lined /\ Fewer
    <3>1. /\ queue' \in [Daemons -> Seq(Connections)]
          /\ \A e \in Daemons : queue'[e] = IF e = d THEN << >> ELSE queue[e]
      BY <1>2, <2>2 DEF Reset
    <3>2. Distinct(<< >>) /\ \A b : ~In(b, << >>)
      BY DEF Distinct, In
    <3>3. QED  BY <1>2, <3>1, <3>2
  <2>3. CASE Prepare(d) \/ Stop(d)
    <3>1. UNCHANGED <<queue, serving, got>>
      BY <2>3 DEF Prepare, Stop, connVars
    <3>2. QED  BY <1>3, <2>1, <3>1 DEF IInv, Types
  <2>4. CASE Close(d)
    <3>1. Reset(d) /\ UNCHANGED <<serving, got>>
      BY <2>4 DEF Close
    <3>2. QED  BY <1>3, <2>2, <3>1 DEF IInv, Types
  <2>5. CASE Die(d)
    <3>1. /\ Reset(d)
          /\ serving' = [serving EXCEPT ![d] = None] /\ got' = [got EXCEPT ![d] = "none"]
      BY <2>5 DEF Die
    <3>2. /\ serving' \in [Daemons -> Connections \cup {None}]
          /\ got' \in [Daemons -> Amounts \cup Statuses]
          /\ \A e \in Daemons : serving'[e] = (IF e = d THEN None ELSE serving[e])
                                /\ got'[e] = (IF e = d THEN "none" ELSE got[e])
      BY <3>1 DEF IInv, Types, Amounts
    <3>3. \A e \in Daemons : serving[e] = None => got[e] = "none"
      BY DEF IInv, DaemonInv
    <3>4. \A e \in Daemons : /\ serving'[e] \in {serving[e], None}
                             /\ serving'[e] = serving[e] => got'[e] = got[e]
                             /\ serving'[e] = None => got'[e] = "none"
      BY <3>2, <3>3
    <3>5. QED  BY <2>2, <3>1, <3>2, <3>4
  <2>6. CASE ProbeRoom(d)
    <3>1. UNCHANGED <<serving, got>>
      BY <2>6 DEF ProbeRoom
    <3>2. CASE ~Accepts(file)
      BY <1>3, <2>1, <2>6, <3>1, <3>2 DEF ProbeRoom, IInv, Types
    <3>3. CASE Accepts(file)
      <4>1. file \in Daemons /\ queue' = [queue EXCEPT ![file] = Append(@, d)]
        BY <2>6, <3>3 DEF ProbeRoom, Accepts
      <4>2. d \in Connections /\ d \notin Clients /\ queue[file] \in Seq(Connections)
        BY <1>2, <4>1, NamesApart DEF Connections
      <4>3. /\ \A x : In(x, Append(queue[file], d)) <=> In(x, queue[file]) \/ x = d
            /\ Distinct(Append(queue[file], d))
            /\ Append(queue[file], d) \in Seq(Connections)
        BY <1>2, <4>1, <4>2, InAppend, DistinctAppend
      <4>4. /\ queue' \in [Daemons -> Seq(Connections)]
            /\ \A e \in Daemons :
                 queue'[e] = IF e = file THEN Append(queue[file], d) ELSE queue[e]
        BY <1>2, <4>1, <4>3
      <4>5. Lined /\ Fewer
        BY <1>2, <4>2, <4>3, <4>4
      <4>6. QED  BY <1>3, <3>1, <4>5 DEF IInv, Types
    <3>4. QED  BY <3>2, <3>3
  <2>7. QED  BY <2>3, <2>4, <2>5, <2>6 DEF Live
<1>5. Types'
  BY <1>1, <1>4 DEF IInv, Types
<1>6. ASSUME NEW e \in Daemons PROVE DaemonInv(e)'
  <2>1. Distinct(queue'[e]) /\ (serving'[e] = None => got'[e] = "none")
    BY <1>4
  <2>2. QED  BY <2>1 DEF DaemonInv, Distinct
<1>7. ASSUME NEW b \in Clients PROVE ClientInv(b)' /\ True(b)'
  BY <1>1 DEF IInv, ClientInv, True, Untouched
<1>8. ASSUME NEW b \in Clients, NEW e \in Daemons PROVE QueueInv(b, e)' /\ ServeInv(b, e)'
  <2>1. QueueInv(b, e) /\ ServeInv(b, e) /\ b # None
    BY NamesApart DEF IInv, Connections
  <2>2. In(b, queue[e])' => In(b, queue[e])
    BY <1>4 DEF In
  <2>3. QED  BY <1>1, <1>4, <2>1, <2>2 DEF QueueInv, ServeInv, Linked, Untouched
<1>9. QED  BY <1>5, <1>6, <1>7, <1>8 DEF IInv

-----------------------------------------------------------------------------
(* The theorem.                                                             *)

LEMMA StepKeepsInv == IInv /\ [SocketNext]_socketVars => IInv'
<1> SUFFICES ASSUME IInv, [SocketNext]_socketVars PROVE IInv'
  OBVIOUS
<1>1. CASE UNCHANGED socketVars
  BY <1>1 DEF socketVars, IInv, Types, DaemonInv, ClientInv, True, QueueInv, ServeInv,
              Linked, Untouched, In, Distinct
<1>2. ASSUME NEW c \in Clients, Sweetbg(c) PROVE IInv'
  BY <1>2, CommandKeepsInv, ConnectKeepsInv DEF Sweetbg
<1>3. ASSUME NEW d \in Daemons, Handle(d) PROVE IInv'
  BY <1>3, AcceptKeepsInv, FrameKeepsInv, ExecuteKeepsInv, ReplyKeepsInv DEF Handle
<1>4. ASSUME NEW d \in Daemons, Live(d) PROVE IInv'
  BY <1>4, LiveKeepsInv
<1>5. QED  BY <1>1, <1>2, <1>3, <1>4 DEF SocketNext

\* However many commands and daemons there are, and however they fail, a
\* request is obeyed at most once, as a whole, and the reply to it is true.
THEOREM RepliesAreTrue == SocketSpec => []AnswersAreTrue
<1>1. IInv => AnswersAreTrue
  BY DEF IInv, True, AnswersAreTrue
<1>2. QED  BY <1>1, InitialInv, StepKeepsInv, PTL DEF SocketSpec

-----------------------------------------------------------------------------
(* Descriptors.                                                             *)

\* a frame that was refused has left none
Held(d) ==
  /\ fds[d] \subseteq Clients \cap {serving[d]}
  /\ got[d] = "bad" => fds[d] = {}

DescInv == fds \in [Daemons -> SUBSET Clients] /\ \A d \in Daemons : Held(d)

\* a step of d that leaves the connections of the other daemons alone
LEMMA DescStep ==
  ASSUME DescInv, IInv, NEW d \in Daemons, NEW f \in SUBSET Clients,
         fds' = [fds EXCEPT ![d] = f],
         f \subseteq {serving'[d]}, got'[d] = "bad" => f = {},
         \A e \in Daemons \ {d} : serving'[e] = serving[e] /\ got'[e] = got[e]
  PROVE  DescInv'
<1>1. /\ fds' \in [Daemons -> SUBSET Clients]
      /\ \A e \in Daemons : fds'[e] = IF e = d THEN f ELSE fds[e]
  BY DEF DescInv
<1>2. ASSUME NEW e \in Daemons PROVE Held(e)'
  BY <1>1 DEF DescInv, Held
<1>3. QED  BY <1>1, <1>2 DEF DescInv

LEMMA DescNone ==
  ASSUME DescInv, IInv, NEW d \in Daemons, fds' = [fds EXCEPT ![d] = {}],
         \A e \in Daemons \ {d} : serving'[e] = serving[e] /\ got'[e] = got[e]
  PROVE  DescInv'
<1>1. PICK f \in SUBSET Clients : f = {}
  OBVIOUS
<1>2. f \subseteq {serving'[d]} /\ fds' = [fds EXCEPT ![d] = f]
  BY <1>1
<1>3. QED  BY <1>1, <1>2, DescStep

LEMMA HandleKeepsDesc == ASSUME DescInv, IInv, NEW d \in Daemons, Handle(d) PROVE DescInv'
<1>1. /\ serving \in [Daemons -> Connections \cup {None}]
      /\ got \in [Daemons -> Amounts \cup Statuses]
      /\ fds \in [Daemons -> SUBSET Clients]
      /\ fds[d] \subseteq Clients \cap {serving[d]} /\ (got[d] = "bad" => fds[d] = {})
  BY DEF DescInv, Held, IInv, Types
<1>2. fds = [fds EXCEPT ![d] = fds[d]]
  BY <1>1
<1>3. CASE Accept(d)
  <2>1. fds[d] = {}
    BY <1>1, <1>3, NamesApart DEF Accept, Connections
  <2>2. /\ UNCHANGED <<got, fds>>
        /\ \A e \in Daemons \ {d} : serving'[e] = serving[e]
    BY <1>1, <1>3 DEF Accept
  <2>3. QED  BY <1>1, <1>2, <2>1, <2>2, DescStep
<1>4. CASE Read(d)
  <2>1. /\ UNCHANGED serving /\ got[d] \in Amounts
        /\ got' = [got EXCEPT ![d] = Written(serving[d])]
        /\ Written(serving[d]) \in Amounts
    BY <1>4 DEF Read, Written, IInv, Types, Command, Amounts
  <2>2. got'[d] # "bad" /\ \A e \in Daemons \ {d} : got'[e] = got[e]
    BY <1>1, <2>1 DEF Amounts
  <2>3. PICK f \in {fds[d], fds[d] \cup {serving[d]}} :
           /\ fds' = [fds EXCEPT ![d] = f]
           /\ f # fds[d] => serving[d] \in Carriers
    BY <1>2, <1>4 DEF Read
  <2>4. f \in SUBSET Clients /\ f \subseteq {serving[d]}
    BY <1>1, <2>3, ConnectionAssumption
  <2>5. QED  BY <2>1, <2>2, <2>3, <2>4, DescStep
<1>5. CASE Execute(d)
  <2>1. /\ UNCHANGED <<fds, serving>> /\ got'[d] = "obeyed"
        /\ \A e \in Daemons \ {d} : got'[e] = got[e]
    BY <1>1, <1>5 DEF Execute
  <2>2. QED  BY <1>1, <1>2, <2>1, DescStep
<1>6. CASE Refuse(d)
  <2>1. /\ UNCHANGED serving /\ fds' = [fds EXCEPT ![d] = {}]
        /\ \A e \in Daemons \ {d} : got'[e] = got[e]
    BY <1>1, <1>6 DEF Refuse, ClosedOnFailure
  <2>2. QED  BY <2>1, DescNone
<1>7. CASE Reply(d)
  <2>1. \A e \in Daemons \ {d} : serving'[e] = serving[e] /\ got'[e] = got[e]
    BY <1>1, <1>7 DEF Reply
  <2>2. got[d] \in Statuses
    BY <1>7 DEF Reply
  <2>3. fds' = [fds EXCEPT ![d] = {}]
    <3>1. CASE got[d] = "obeyed"
      <4>1. fds[d] \ {serving[d]} = {}
        BY <1>1
      <4>2. QED  BY <1>7, <3>1, <4>1 DEF Reply
    <3>2. CASE got[d] = "bad"
      BY <1>1, <1>7, <3>2 DEF Reply
    <3>3. QED  BY <2>2, <3>1, <3>2 DEF Statuses
  <2>4. QED  BY <2>1, <2>3, DescNone
<1>8. QED  BY <1>3, <1>4, <1>5, <1>6, <1>7 DEF Handle

LEMMA LiveKeepsDesc == ASSUME DescInv, IInv, NEW d \in Daemons, Live(d) PROVE DescInv'
<1>1. CASE ProbeRoom(d) \/ Prepare(d) \/ Stop(d) \/ Close(d)
  BY <1>1 DEF ProbeRoom, Prepare, Stop, Close, connVars, DescInv, Held
<1>2. CASE Die(d)
  <2>1. \A e \in Daemons \ {d} : serving'[e] = serving[e] /\ got'[e] = got[e]
    BY <1>2 DEF Die, IInv, Types
  <2>2. fds' = [fds EXCEPT ![d] = {}]
    BY <1>2 DEF Die, IInv, Types
  <2>3. QED  BY <2>1, <2>2, DescNone
<1>3. QED  BY <1>1, <1>2 DEF Live

\* The descriptors of images are closed with their connections, of refused
\* requests too: none is left behind.
THEOREM NoDescriptorLeaks == SocketSpec => []DescriptorsClosed
<1>1. SocketInit => DescInv
  BY DEF SocketInit, DescInv, Held
<1>2. IInv /\ DescInv /\ [SocketNext]_socketVars => DescInv'
  <2> SUFFICES ASSUME IInv, DescInv, [SocketNext]_socketVars PROVE DescInv'
    OBVIOUS
  <2>1. CASE UNCHANGED socketVars
    BY <2>1 DEF socketVars, DescInv, Held
  <2>2. ASSUME NEW c \in Clients, Sweetbg(c) PROVE DescInv'
    BY <2>2 DEF Sweetbg, Invoke, Connect, Send, Receive, GiveUp, Kill, DescInv, Held
  <2>3. QED  BY <2>1, <2>2, HandleKeepsDesc, LiveKeepsDesc DEF SocketNext
<1>3. DescInv => DescriptorsClosed
  BY DEF DescInv, Held, DescriptorsClosed
<1>4. QED  BY <1>1, <1>2, <1>3, InitialInv, StepKeepsInv, PTL DEF SocketSpec

-----------------------------------------------------------------------------
(* Connections are where somebody takes care of them.                       *)

\* a daemon handles connections only while it serves, and keeps a queue only
\* while its socket accepts
Home(d) ==
  /\ Len(queue[d]) <= Backlog
  /\ fds[d] \subseteq Carriers
  /\ at[d] # "serve" => serving[d] = None
  /\ at[d] \notin {"serve", "finish"} => queue[d] = << >>

HomeInv ==
  /\ at \in [Daemons -> Starting \cup Running \cup Ended]
  /\ \A d \in Daemons : Home(d)

\* d accepts connections and has room for c
LEMMA QueueGrows ==
  ASSUME IInv, HomeInv, NEW c \in Connections, Accepts(file), Room,
         queue' = [queue EXCEPT ![file] = Append(@, c)], UNCHANGED <<serving, fds>>,
         at' \in [Daemons -> Starting \cup Running \cup Ended],
         \A d \in Daemons : at[d] \in {"serve", "finish"} => at'[d] = at[d],
         \A d \in Daemons : at'[d] = "serve" => at[d] = "serve"
  PROVE  HomeInv'
<1>1. queue \in [Daemons -> Seq(Connections)] /\ file \in Daemons /\ at[file] \in {"serve", "finish"}
  BY DEF IInv, Types, Accepts
<1>2. /\ \A d \in Daemons : queue'[d] = IF d = file THEN Append(queue[d], c) ELSE queue[d]
      /\ Len(Append(queue[file], c)) = Len(queue[file]) + 1 /\ Len(queue[file]) \in Nat
  BY <1>1
<1>3. Len(queue[file]) + 1 <= Backlog
  BY <1>2, ConnectionAssumption DEF Room
<1>4. ASSUME NEW d \in Daemons PROVE Home(d)'
  BY <1>1, <1>2, <1>3 DEF HomeInv, Home
<1>5. QED  BY <1>4 DEF HomeInv

LEMMA SweetbgKeepsHome ==
  ASSUME IInv, HomeInv, NEW c \in Clients, Sweetbg(c) PROVE HomeInv'
<1>1. CASE UNCHANGED <<at, queue, serving, fds>>
  BY <1>1 DEF HomeInv, Home
<1>2. CASE Connect(c) /\ Accepts(file)
  <2>1. c \in Connections
    BY DEF Connections
  <2>2. QED  BY <1>2, <2>1, QueueGrows DEF Connect, HomeInv
<1>3. QED  BY <1>1, <1>2 DEF Sweetbg, Invoke, Connect, Send, Receive, GiveUp, Kill

LEMMA HandleKeepsHome ==
  ASSUME IInv, DescInv, HomeInv, NEW d \in Daemons, Handle(d) PROVE HomeInv'
<1>1. /\ serving \in [Daemons -> Connections \cup {None}]
      /\ queue \in [Daemons -> Seq(Connections)]
      /\ fds \in [Daemons -> SUBSET Clients]
      /\ UNCHANGED at
  BY DEF IInv, Types, DescInv, Handle, Accept, Read, Execute, Refuse, Reply
<1>2. \A e \in Daemons : Home(e)
  BY DEF HomeInv
<1>3. CASE Accept(d)
  <2>1. /\ at[d] = "serve" /\ queue[d] # << >> /\ UNCHANGED fds
        /\ \A e \in Daemons : queue'[e] = IF e = d THEN Tail(queue[d]) ELSE queue[e]
        /\ \A e \in Daemons \ {d} : serving'[e] = serving[e]
    BY <1>1, <1>3 DEF Accept
  <2>2. Len(Tail(queue[d])) <= Len(queue[d]) /\ Len(Tail(queue[d])) \in Nat /\ Len(queue[d]) \in Nat
    BY <1>1, <2>1
  <2>3. Len(Tail(queue[d])) <= Backlog
    BY <1>2, <2>2, ConnectionAssumption DEF Home
  <2>4. Home(d)'
    BY <1>1, <1>2, <2>1, <2>3 DEF Home
  <2>5. ASSUME NEW e \in Daemons \ {d} PROVE Home(e)'
    BY <1>1, <1>2, <2>1 DEF Home
  <2>6. QED  BY <1>1, <2>4, <2>5 DEF HomeInv
<1>4. ASSUME UNCHANGED queue,
             \A e \in Daemons : fds'[e] \subseteq Carriers /\ serving'[e] \in {serving[e], None}
      PROVE  HomeInv'
  <2>1. ASSUME NEW e \in Daemons PROVE Home(e)'
    BY <1>1, <1>2, <1>4 DEF Home
  <2>2. QED  BY <1>1, <2>1 DEF HomeInv
<1>5. \A e \in Daemons : fds[e] \subseteq Carriers
  BY <1>2 DEF Home
<1>6. CASE Read(d)
  BY <1>1, <1>4, <1>5, <1>6 DEF Read
<1>7. CASE Execute(d)
  BY <1>1, <1>4, <1>5, <1>7 DEF Execute
<1>8. CASE Refuse(d)
  BY <1>1, <1>4, <1>5, <1>8 DEF Refuse, ClosedOnFailure
<1>9. CASE Reply(d)
  <2>1. \A e \in Daemons : fds'[e] \subseteq fds[e]
    BY <1>1, <1>9 DEF Reply
  <2>2. QED  BY <1>1, <1>4, <1>5, <1>9, <2>1 DEF Reply
<1>10. QED  BY <1>3, <1>6, <1>7, <1>8, <1>9 DEF Handle

LEMMA LiveKeepsHome ==
  ASSUME IInv, DescInv, HomeInv, NEW d \in Daemons, Live(d) PROVE HomeInv'
<1>1. /\ at \in [Daemons -> Starting \cup Running \cup Ended]
      /\ queue \in [Daemons -> Seq(Connections)]
      /\ serving \in [Daemons -> Connections \cup {None}]
      /\ fds \in [Daemons -> SUBSET Clients]
      /\ \A e \in Daemons : Home(e)
  BY DEF IInv, Types, DescInv, HomeInv
<1>2. ASSUME NEW from, NEW to \in Starting \cup Running \cup Ended, Goto(d, from, to)
      PROVE  /\ at' \in [Daemons -> Starting \cup Running \cup Ended]
             /\ at[d] = from /\ \A e \in Daemons : at'[e] = IF e = d THEN to ELSE at[e]
  BY <1>1, <1>2 DEF Goto
<1>3. CASE ProbeRoom(d)
  <2>1. PICK to \in {"bind", "failed", "unlink"} : Goto(d, "probe", to)
    BY <1>3 DEF ProbeRoom, Probe, Probed
  <2>2. /\ at' \in [Daemons -> Starting \cup Running \cup Ended] /\ at[d] = "probe"
        /\ \A e \in Daemons : at'[e] = IF e = d THEN to ELSE at[e]
    BY <1>2, <2>1 DEF Starting, Ended
  <2>3. CASE Accepts(file)
    <3>1. d \in Connections /\ Room /\ UNCHANGED <<serving, fds>>
          /\ queue' = [queue EXCEPT ![file] = Append(@, d)]
      BY <1>3, <2>3 DEF ProbeRoom, Connections
    <3>2. QED  BY <2>2, <2>3, <3>1, QueueGrows
  <2>4. CASE ~Accepts(file)
    <3>1. UNCHANGED <<queue, serving, fds>>
      BY <1>3, <2>4 DEF ProbeRoom
    <3>2. ASSUME NEW e \in Daemons PROVE Home(e)'
      BY <1>1, <2>2, <3>1 DEF Home
    <3>3. QED  BY <2>2, <3>2 DEF HomeInv
  <2>5. QED  BY <2>3, <2>4
<1>4. CASE Prepare(d)
  <2>1. PICK from \in {"off", "unlink", "bind", "chmod", "listen", "undo", "remove"},
             to \in Starting \cup {"serve"} \cup Ended : Goto(d, from, to)
    BY <1>4 DEF Prepare, Start, UnlinkStale, Bind, Chmod, Listen, Undo, Remove, Starting, Ended
  <2>2. /\ at' \in [Daemons -> Starting \cup Running \cup Ended] /\ at[d] = from
        /\ \A e \in Daemons : at'[e] = IF e = d THEN to ELSE at[e]
    BY <1>2, <2>1 DEF Running
  <2>3. UNCHANGED <<queue, serving, fds>>
    BY <1>4 DEF Prepare, connVars
  <2>4. ASSUME NEW e \in Daemons PROVE Home(e)'
    <3>1. CASE e = d
      BY <1>1, <2>1, <2>2, <2>3, <3>1 DEF Home
    <3>2. CASE e # d
      BY <1>1, <2>2, <2>3, <3>2 DEF Home
    <3>3. QED  BY <3>1, <3>2
  <2>5. QED  BY <2>2, <2>4 DEF HomeInv
<1>5. CASE Stop(d)
  <2>1. /\ at' \in [Daemons -> Starting \cup Running \cup Ended] /\ at[d] = "serve"
        /\ \A e \in Daemons : at'[e] = IF e = d THEN "finish" ELSE at[e]
    BY <1>2, <1>5 DEF Stop, Finish, Running
  <2>2. UNCHANGED <<queue, serving, fds>> /\ serving[d] = None
    BY <1>5 DEF Stop, connVars
  <2>3. ASSUME NEW e \in Daemons PROVE Home(e)'
    BY <1>1, <2>1, <2>2 DEF Home
  <2>4. QED  BY <2>1, <2>3 DEF HomeInv
<1>6. ASSUME Reset(d)
      PROVE  \A e \in Daemons : /\ queue'[e] = (IF e = d THEN << >> ELSE queue[e])
                                /\ Len(queue'[e]) <= Backlog
  <2>1. \A e \in Daemons : queue'[e] = IF e = d THEN << >> ELSE queue[e]
    BY <1>1, <1>6 DEF Reset
  <2>2. Len(<< >>) <= Backlog
    BY ConnectionAssumption
  <2>3. QED  BY <1>1, <2>1, <2>2 DEF Home
<1>7. CASE Close(d)
  <2>1. /\ at' \in [Daemons -> Starting \cup Running \cup Ended] /\ at[d] = "finish"
        /\ \A e \in Daemons : at'[e] = IF e = d THEN "remove" ELSE at[e]
    BY <1>2, <1>7 DEF Close, CloseSocket, Running
  <2>2. UNCHANGED <<serving, fds>>
    BY <1>7 DEF Close
  <2>3. ASSUME NEW e \in Daemons PROVE Home(e)'
    BY <1>1, <1>6, <1>7, <2>1, <2>2 DEF Home, Close
  <2>4. QED  BY <2>1, <2>3 DEF HomeInv
<1>8. CASE Die(d)
  <2>1. /\ at' \in [Daemons -> Starting \cup Running \cup Ended]
        /\ \A e \in Daemons : at'[e] = IF e = d THEN "crashed" ELSE at[e]
    BY <1>1, <1>8 DEF Die, Crash, Ended
  <2>2. /\ serving' = [serving EXCEPT ![d] = None] /\ fds' = [fds EXCEPT ![d] = {}]
        /\ \A e \in Daemons : /\ queue'[e] = (IF e = d THEN << >> ELSE queue[e])
                              /\ Len(queue'[e]) <= Backlog
    BY <1>6, <1>8 DEF Die
  <2>3. \A e \in Daemons : serving'[e] = (IF e = d THEN None ELSE serving[e])
                           /\ fds'[e] = (IF e = d THEN {} ELSE fds[e])
    BY <1>1, <2>2
  <2>4. Home(d)'
    BY <2>1, <2>2, <2>3 DEF Home
  <2>5. ASSUME NEW e \in Daemons \ {d} PROVE Home(e)'
    BY <1>1, <2>1, <2>2, <2>3 DEF Home
  <2>6. QED  BY <2>1, <2>4, <2>5 DEF HomeInv
<1>9. QED  BY <1>3, <1>4, <1>5, <1>7, <1>8 DEF Live

\* A process that does not listen has no connections, queues keep to their
\* limit, and only requests that carry descriptors leave any.
THEOREM ConnectionsAreOK == SocketSpec => []ConnectionsOK
<1>1. SocketInit => DescInv /\ HomeInv
  BY ConnectionAssumption DEF SocketInit, Init, DescInv, Held, HomeInv, Home, Ended
<1>2. IInv /\ DescInv /\ HomeInv /\ [SocketNext]_socketVars => DescInv' /\ HomeInv'
  <2> SUFFICES ASSUME IInv, DescInv, HomeInv, [SocketNext]_socketVars PROVE DescInv' /\ HomeInv'
    OBVIOUS
  <2>1. CASE UNCHANGED socketVars
    BY <2>1 DEF socketVars, DescInv, Held, HomeInv, Home
  <2>2. ASSUME NEW c \in Clients, Sweetbg(c) PROVE DescInv' /\ HomeInv'
    <3>1. DescInv'
      BY <2>2 DEF Sweetbg, Invoke, Connect, Send, Receive, GiveUp, Kill, DescInv, Held
    <3>2. QED  BY <2>2, <3>1, SweetbgKeepsHome
  <2>3. ASSUME NEW d \in Daemons, Handle(d) \/ Live(d) PROVE DescInv' /\ HomeInv'
    BY <2>3, HandleKeepsDesc, LiveKeepsDesc, HandleKeepsHome, LiveKeepsHome
  <2>4. QED  BY <2>1, <2>2, <2>3 DEF SocketNext
<1>3. IInv /\ HomeInv => ConnectionsOK
  <2> SUFFICES ASSUME IInv, HomeInv, NEW d \in Daemons
               PROVE  /\ queue[d] \in Seq(Clients \cup Daemons) /\ Len(queue[d]) <= Backlog
                      /\ serving[d] \in Clients \cup Daemons \cup {None}
                      /\ fds[d] \subseteq Carriers
                      /\ ~Accepts(d) => queue[d] = << >> /\ serving[d] = None
    BY DEF IInv, Types, ConnectionsOK
  <2>1. queue[d] \in Seq(Clients \cup Daemons) /\ serving[d] \in Clients \cup Daemons \cup {None}
    BY DEF IInv, Types, Connections
  <2>2. Home(d)
    BY DEF HomeInv
  <2>3. QED  BY <2>1, <2>2 DEF Home, Accepts
<1>4. QED  BY <1>1, <1>2, <1>3, InitialInv, StepKeepsInv, PTL DEF SocketSpec
=============================================================================

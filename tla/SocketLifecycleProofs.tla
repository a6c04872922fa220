------------------------ MODULE SocketLifecycleProofs ------------------------
(* What holds of the control socket for any number of daemons.             *)
EXTENDS SocketLifecycle, TLAPS

\* Every process is at one of the calls of its life.
LEMMA SocketTypes == Spec => []TypeOK
<1>1. Init => TypeOK
  BY DEF Init, TypeOK, Ended
<1>2. TypeOK /\ [Next]_vars => TypeOK'
  <2> SUFFICES ASSUME TypeOK, [Next]_vars PROVE TypeOK'
    OBVIOUS
  <2>1. CASE UNCHANGED vars
    BY <2>1 DEF vars, TypeOK
  <2>2. ASSUME NEW d \in Daemons, Start(d) \/ Proceed(d) \/ Finish(d) \/ Crash(d)
        PROVE  TypeOK'
    BY <2>2 DEF TypeOK, Start, Proceed, Finish, Crash, Goto, Probe, UnlinkStale,
                Bind, Chmod, Listen, Undo, CloseSocket, Remove, Probed,
                Starting, Running, Ended
  <2>3. QED  BY <2>1, <2>2 DEF Next
<1>3. QED  BY <1>1, <1>2, PTL DEF Spec

\* Only a crash leaves a daemon's socket file behind.
THEOREM NoFileLeftBehind == Spec => []StaleOnlyByCrash
<1> DEFINE Bound == {"chmod", "listen", "undo", "crashed"} \cup Running
<1>1. Init => StaleOnlyByCrash
  BY SocketAssumption DEF Init, StaleOnlyByCrash
<1>2. TypeOK /\ StaleOnlyByCrash /\ [Next]_vars => StaleOnlyByCrash'
  <2> SUFFICES ASSUME TypeOK, StaleOnlyByCrash, [Next]_vars,
                      NEW e \in Daemons, file' = e
               PROVE  at'[e] \in Bound
    BY DEF StaleOnlyByCrash
  <2>1. CASE UNCHANGED vars
    BY <2>1 DEF vars, StaleOnlyByCrash
  <2>2. ASSUME NEW d \in Daemons, Start(d) \/ Proceed(d) \/ Finish(d) \/ Crash(d)
        PROVE  at'[e] \in Bound
    <3>1. CASE file' = file
      <4>1. at[e] \in Bound
        BY <3>1 DEF StaleOnlyByCrash
      <4>2. QED
        BY <2>2, <3>1, <4>1, SocketAssumption
        DEF TypeOK, Start, Proceed, Finish, Crash, Goto, Probe, UnlinkStale,
            Bind, Chmod, Listen, Undo, CloseSocket, Remove, Starting, Running
    <3>2. CASE file' # file
      <4>1. Bind(d) /\ file = None /\ e = d
        BY <2>2, <3>2, SocketAssumption
        DEF Start, Proceed, Finish, Crash, Probe, UnlinkStale, Bind, Chmod,
            Listen, Undo, CloseSocket, Remove
      <4>2. QED  BY <4>1 DEF Bind, Goto, TypeOK
    <3>3. QED  BY <3>1, <3>2
  <2>3. QED  BY <2>1, <2>2 DEF Next
<1>3. QED  BY <1>1, <1>2, SocketTypes, PTL DEF Spec

\* A daemon that is established is not displaced by those started beside it.
THEOREM EstablishedIsKept == Spec => EstablishedStays
<1>1. TypeOK /\ [Next]_vars =>
        (\A d \in Daemons : Established(d) /\ at'[d] = "serve" => Established(d)')
  <2> SUFFICES ASSUME TypeOK, [Next]_vars, NEW d \in Daemons,
                      Established(d), at'[d] = "serve"
               PROVE  Established(d)'
    OBVIOUS
  <2>1. CASE UNCHANGED vars
    BY <2>1 DEF vars, Established
  <2>2. ASSUME NEW e \in Daemons, Start(e) \/ Proceed(e) \/ Finish(e) \/ Crash(e)
        PROVE  Established(d)'
    <3>1. e # d
      BY <2>2 DEF TypeOK, Established, Start, Proceed, Finish, Crash, Goto, Probe,
                  UnlinkStale, Bind, Chmod, Listen, Undo, CloseSocket, Remove
    <3>2. at[e] \in Ended \cup {"probe"}
      BY <3>1 DEF Established
    <3>3. Accepts(file) /\ file # None
      BY SocketAssumption DEF Established, Accepts
    <3>4. Start(e) \/ Probe(e) \/ Crash(e)
      BY <2>2, <3>2 DEF Proceed, Finish, Goto, UnlinkStale, Bind, Chmod, Listen,
                        Undo, CloseSocket, Remove, Ended
    <3>5. /\ file' = file
          /\ at' = [at EXCEPT ![e] = at'[e]]
          /\ at'[e] \in Ended \cup {"probe"}
      BY <3>3, <3>4 DEF Start, Probe, Crash, Goto, Probed, TypeOK, Ended
    <3>6. QED
      BY <3>1, <3>5 DEF Established, TypeOK
  <2>3. QED  BY <2>1, <2>2 DEF Next
<1>2. QED  BY <1>1, SocketTypes, PTL DEF Spec, EstablishedStays
=============================================================================

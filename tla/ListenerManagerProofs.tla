------------------------ MODULE ListenerManagerProofs ------------------------
(***************************************************************************)
(* Proofs about ListenerManager, for any registries, ports and callers and *)
(* any number of listeners.  That no key outlives its holders is proved    *)
(* with timeouts and server errors; that whatever listens is registered    *)
(* needs that there are none.                                              *)
(***************************************************************************)
EXTENDS ListenerManager, TLAPS

Instance == [reg : Registry, port : Port, cancelled : BOOLEAN,
             serve : {"delayed", "serving", "finished"} \cup Cleaning,
             shut  : {"waiting", "draining", "finished"} \cup Cleaning]

UnderWay == [step : {"lockReg", "giveUp", "check", "insert", "cancel", "wait"} \cup Cleaning,
             reg : Registry, port : Port, ln : {0} \cup Listener]

-----------------------------------------------------------------------------
(* The inductive invariant with timeouts and failing servers *)

(* Who has a listener at hand has one that was made, and as long as it     *)
(* does, its place is not given to another.                                *)
ListenersMade ==
  /\ \A r \in Registry : listeners[r] # 0 =>
       Made(listeners[r]) /\ inst[listeners[r]].reg = r
  /\ \A c \in Caller : call[c] # Idle /\ call[c].ln # 0 => Made(call[c].ln)
  /\ \A c \in Caller : call[c].step \in {"cancel", "wait"} => call[c].ln # 0

(* Those who will unlock their port, and those who will unlock their       *)
(* registry, before they are done: callers and listeners.                  *)
CallerFreesPort(c) == call[c].step \in {"lockReg", "giveUp", "check", "insert", "entry", "port"}
CallerFreesReg(c)  == call[c].step \in {"check", "insert", "entry", "port", "reg"}

FreesPort(i) ==
  /\ Made(i)
  /\ \/ inst[i].serve \in {"entry", "port"}
     \/ inst[i].shut \in {"draining", "entry", "port"}
     \/ inst[i].shut = "waiting" /\ (inst[i].cancelled \/ inst[i].serve \in {"delayed", "serving"})

FreesReg(i) == FreesPort(i) \/ (Made(i) /\ "reg" \in {inst[i].serve, inst[i].shut})

PortsToBeFreed ==
  \A pt \in portsLock : \/ \E c \in Caller : CallerFreesPort(c) /\ call[c].port = pt
                        \/ \E i \in Listener : FreesPort(i) /\ inst[i].port = pt

RegistriesToBeFreed ==
  \A r \in regListenersLock : \/ \E c \in Caller : CallerFreesReg(c) /\ call[c].reg = r
                              \/ \E i \in Listener : FreesReg(i) /\ inst[i].reg = r

KInv == TypeOK /\ ListenersMade /\ PortsToBeFreed /\ RegistriesToBeFreed

-----------------------------------------------------------------------------
(* The inductive invariant without them *)

(* Nobody cleans up but the goroutine that shuts its server down.          *)
OnlyShutdownsCleanUp ==
  /\ \A c \in Caller : call[c].step \notin Cleaning
  /\ \A i \in Listener : Made(i) =>
       inst[i].serve \notin Cleaning /\ (inst[i].serve = "finished" => inst[i].shut # "waiting")

PortHolder(c)  == call[c].step \in {"lockReg", "giveUp", "check", "insert"}
RegHolder(c)   == call[c].step \in {"check", "insert"}
HoldsPort(i)   == Made(i) /\ inst[i].shut \in {"waiting", "draining", "entry", "port"}
HoldsReg(i)    == Made(i) /\ inst[i].shut \in {"waiting", "draining", "entry", "port", "reg"}
Registered(i)  == Made(i) /\ inst[i].shut \in {"waiting", "draining", "entry"}

(* Holders have locked what they hold, each its own.                       *)
PortsHeld ==
  /\ \A c \in Caller : PortHolder(c) => call[c].port \in portsLock
  /\ \A i \in Listener : HoldsPort(i) => inst[i].port \in portsLock
  /\ \A c, d \in Caller : PortHolder(c) /\ PortHolder(d) /\ c # d => call[c].port # call[d].port
  /\ \A c \in Caller, i \in Listener :
       PortHolder(c) /\ HoldsPort(i) => call[c].port # inst[i].port
  /\ \A i, j \in Listener : HoldsPort(i) /\ HoldsPort(j) /\ i # j => inst[i].port # inst[j].port

RegistriesHeld ==
  /\ \A c \in Caller : RegHolder(c) => call[c].reg \in regListenersLock
  /\ \A i \in Listener : HoldsReg(i) => inst[i].reg \in regListenersLock
  /\ \A c, d \in Caller : RegHolder(c) /\ RegHolder(d) /\ c # d => call[c].reg # call[d].reg
  /\ \A c \in Caller, i \in Listener :
       RegHolder(c) /\ HoldsReg(i) => call[c].reg # inst[i].reg
  /\ \A i, j \in Listener : HoldsReg(i) /\ HoldsReg(j) /\ i # j => inst[i].reg # inst[j].reg

(* The map of listeners knows those that are not yet cleaned up.           *)
EntriesExact ==
  /\ \A i \in Listener : Registered(i) => listeners[inst[i].reg] = i
  /\ \A r \in Registry : listeners[r] # 0 => Registered(listeners[r])

LInv == OnlyShutdownsCleanUp /\ PortsHeld /\ RegistriesHeld /\ EntriesExact

-----------------------------------------------------------------------------
(* What the steps do to callers and listeners *)

(* A caller with a call has its fields, a listener that was made likewise. *)
LEMMA Fields ==
  /\ \A x \in UnderWay : x # Idle /\ x.step \notin {"idle"}
  /\ \A x \in Instance : x # NoListener
  /\ Idle.step = "idle"
<1>1. \A x \in UnderWay : x # Idle /\ x.step \notin {"idle"}
  BY DEF UnderWay, Idle, Cleaning
<1>2. \A x \in Instance : x # NoListener
  <2>1. \A x \in Instance : "serve" \in DOMAIN x
    BY DEF Instance
  <2>2. "serve" \notin DOMAIN NoListener
    BY DEF NoListener
  <2> QED
    BY <2>1, <2>2
<1> QED
  BY <1>1, <1>2 DEF Idle

(* TypeOK, by the names of the sets.                                       *)
LEMMA Typed ==
  ASSUME TypeOK
  PROVE  /\ portsLock \subseteq Port /\ regListenersLock \subseteq Registry
         /\ listeners \in [Registry -> {0} \cup Listener]
         /\ inst \in [Listener -> {NoListener} \cup Instance]
         /\ call \in [Caller -> {Idle} \cup UnderWay]
         /\ \A c \in Caller : call[c] = Idle <=> call[c].step = "idle"
         /\ \A c \in Caller : call[c] # Idle => call[c] \in UnderWay
         /\ \A i \in Listener : Made(i) <=> inst[i] \in Instance
BY Fields DEF TypeOK, Instance, UnderWay, Made

(* GoTo changes the step of one call and nothing else.                     *)
LEMMA CallerMoves ==
  ASSUME TypeOK, NEW c \in Caller, call[c] # Idle,
         NEW step \in {"lockReg", "giveUp", "check", "insert", "cancel", "wait"} \cup Cleaning,
         GoTo(c, step)
  PROVE  /\ call' \in [Caller -> {Idle} \cup UnderWay]
         /\ call'[c] # Idle /\ call'[c].step = step
         /\ call'[c].reg = call[c].reg /\ call'[c].port = call[c].port
         /\ call'[c].ln = call[c].ln
         /\ \A d \in Caller \ {c} : call'[d] = call[d]
<1> DEFINE new == [call[c] EXCEPT !.step = step]
<1>1. call \in [Caller -> {Idle} \cup UnderWay] /\ call[c] \in UnderWay
  BY Typed
<1>2. new \in UnderWay /\ new.step = step /\ new.reg = call[c].reg /\ new.port = call[c].port
        /\ new.ln = call[c].ln
  BY <1>1 DEF UnderWay
<1>3. call' = [call EXCEPT ![c] = new]
  BY <1>1 DEF GoTo
<1> HIDE DEF new
<1>4. call'[c] = new /\ \A d \in Caller \ {c} : call'[d] = call[d]
  BY <1>1, <1>3
<1>5. call' \in [Caller -> {Idle} \cup UnderWay]
  BY <1>1, <1>2, <1>3
<1> QED
  BY <1>2, <1>4, <1>5, Fields

(* Return ends one call.                                                   *)
LEMMA CallerReturns ==
  ASSUME TypeOK, NEW c \in Caller, Return(c)
  PROVE  /\ call' \in [Caller -> {Idle} \cup UnderWay]
         /\ call'[c] = Idle /\ \A d \in Caller \ {c} : call'[d] = call[d]
BY Typed DEF Return

(* The goroutine that serves moves on.                                     *)
LEMMA ServeMoves ==
  ASSUME TypeOK, NEW i \in Listener, Made(i), NEW serve \in {"delayed", "serving", "finished"} \cup Cleaning,
         inst' = [inst EXCEPT ![i].serve = serve]
  PROVE  /\ inst' \in [Listener -> {NoListener} \cup Instance]
         /\ Made(i)' /\ inst'[i].reg = inst[i].reg /\ inst'[i].port = inst[i].port
         /\ inst'[i].serve = serve /\ inst'[i].shut = inst[i].shut /\ inst'[i].cancelled = inst[i].cancelled
         /\ \A j \in Listener \ {i} : inst'[j] = inst[j]
<1> DEFINE new == [inst[i] EXCEPT !.serve = serve]
<1>1. inst \in [Listener -> {NoListener} \cup Instance] /\ inst[i] \in Instance
  BY Typed
<1>2. /\ new \in Instance /\ new.reg = inst[i].reg /\ new.port = inst[i].port
      /\ new.serve = serve /\ new.shut = inst[i].shut /\ new.cancelled = inst[i].cancelled
  BY <1>1 DEF Instance
<1>3. inst' = [inst EXCEPT ![i] = new]
  BY <1>1
<1> HIDE DEF new
<1>4. inst'[i] = new /\ \A j \in Listener \ {i} : inst'[j] = inst[j]
  BY <1>1, <1>3
<1>5. inst' \in [Listener -> {NoListener} \cup Instance]
  BY <1>1, <1>2, <1>3
<1> QED
  BY <1>2, <1>4, <1>5, Fields DEF Made

(* The goroutine that shuts down moves on.                                 *)
LEMMA ShutMoves ==
  ASSUME TypeOK, NEW i \in Listener, Made(i), NEW shut \in {"waiting", "draining", "finished"} \cup Cleaning,
         inst' = [inst EXCEPT ![i].shut = shut]
  PROVE  /\ inst' \in [Listener -> {NoListener} \cup Instance]
         /\ Made(i)' /\ inst'[i].reg = inst[i].reg /\ inst'[i].port = inst[i].port
         /\ inst'[i].shut = shut /\ inst'[i].serve = inst[i].serve /\ inst'[i].cancelled = inst[i].cancelled
         /\ \A j \in Listener \ {i} : inst'[j] = inst[j]
<1> DEFINE new == [inst[i] EXCEPT !.shut = shut]
<1>1. inst \in [Listener -> {NoListener} \cup Instance] /\ inst[i] \in Instance
  BY Typed
<1>2. /\ new \in Instance /\ new.reg = inst[i].reg /\ new.port = inst[i].port
      /\ new.shut = shut /\ new.serve = inst[i].serve /\ new.cancelled = inst[i].cancelled
  BY <1>1 DEF Instance
<1>3. inst' = [inst EXCEPT ![i] = new]
  BY <1>1
<1> HIDE DEF new
<1>4. inst'[i] = new /\ \A j \in Listener \ {i} : inst'[j] = inst[j]
  BY <1>1, <1>3
<1>5. inst' \in [Listener -> {NoListener} \cup Instance]
  BY <1>1, <1>2, <1>3
<1> QED
  BY <1>2, <1>4, <1>5, Fields DEF Made

(* A listener is cancelled.                                               *)
LEMMA ListenerCancelled ==
  ASSUME TypeOK, NEW i \in Listener, Made(i),
         inst' = [inst EXCEPT ![i].cancelled = TRUE]
  PROVE  /\ inst' \in [Listener -> {NoListener} \cup Instance]
         /\ Made(i)' /\ inst'[i].reg = inst[i].reg /\ inst'[i].port = inst[i].port
         /\ inst'[i].cancelled = TRUE /\ inst'[i].serve = inst[i].serve /\ inst'[i].shut = inst[i].shut
         /\ \A j \in Listener \ {i} : inst'[j] = inst[j]
<1> DEFINE new == [inst[i] EXCEPT !.cancelled = TRUE]
<1>1. inst \in [Listener -> {NoListener} \cup Instance] /\ inst[i] \in Instance
  BY Typed
<1>2. /\ new \in Instance /\ new.reg = inst[i].reg /\ new.port = inst[i].port
      /\ new.cancelled = TRUE /\ new.serve = inst[i].serve /\ new.shut = inst[i].shut
  BY <1>1 DEF Instance
<1>3. inst' = [inst EXCEPT ![i] = new]
  BY <1>1
<1> HIDE DEF new
<1>4. inst'[i] = new /\ \A j \in Listener \ {i} : inst'[j] = inst[j]
  BY <1>1, <1>3
<1>5. inst' \in [Listener -> {NoListener} \cup Instance]
  BY <1>1, <1>2, <1>3
<1> QED
  BY <1>2, <1>4, <1>5, Fields DEF Made

(* An unused listener is referred to by nobody, and has nothing to free.   *)
LEMMA UnusedFree ==
  ASSUME TypeOK, ListenersMade, NEW i \in Listener, Unused(i)
  PROVE  /\ ~FreesPort(i) /\ ~FreesReg(i)
         /\ \A r \in Registry : listeners[r] # i
         /\ \A c \in Caller : call[c] # Idle => call[c].ln # i
<1>1. CASE ~Made(i)
  <2>1. i # 0
    BY DEF Listener
  <2> QED
    BY <1>1, <2>1 DEF FreesPort, FreesReg, ListenersMade
<1>2. CASE Made(i)
  <2>1. ~FreesPort(i) /\ ~FreesReg(i)
    BY <1>2 DEF Unused, MayRelease, FreesPort, FreesReg
  <2>2. \A r \in Registry : listeners[r] # i
    BY <1>2 DEF Unused, ListenersMade, Listener
  <2>3. \A c \in Caller : call[c] # Idle => call[c].ln # i
    BY <1>2 DEF Unused, InCall
  <2> QED
    BY <2>1, <2>2, <2>3
<1> QED
  BY <1>1, <1>2

(* Insert, by what it leaves behind.                                       *)
LEMMA Inserted ==
  ASSUME TypeOK, ListenersMade, NEW c \in Caller, Insert(c)
  PROVE  \E i \in Listener :
           /\ Unused(i)
           /\ inst' \in [Listener -> {NoListener} \cup Instance]
           /\ Made(i)' /\ inst'[i].reg = call[c].reg /\ inst'[i].port = call[c].port
           /\ inst'[i].serve = "delayed" /\ inst'[i].shut = "waiting"
           /\ \A j \in Listener \ {i} : inst'[j] = inst[j]
           /\ call[c].step = "insert" /\ call[c].reg \in Registry
           /\ listeners' \in [Registry -> {0} \cup Listener]
           /\ listeners'[call[c].reg] = i
           /\ \A r \in Registry \ {call[c].reg} : listeners'[r] = listeners[r]
<1>1. PICK i \in Listener :
        /\ Unused(i)
        /\ inst' = [inst EXCEPT ![i] =
             [reg |-> call[c].reg, port |-> call[c].port, cancelled |-> FALSE,
              serve |-> "delayed", shut |-> "waiting"]]
        /\ listeners' = [listeners EXCEPT ![call[c].reg] = i]
  BY DEF Insert
<1>2. call[c].step = "insert" /\ call[c] \in UnderWay
  BY Typed DEF Insert, At
<1> DEFINE new == [reg |-> call[c].reg, port |-> call[c].port, cancelled |-> FALSE,
                   serve |-> "delayed", shut |-> "waiting"]
<1>3. new \in Instance /\ call[c].reg \in Registry
  BY <1>2 DEF Instance, UnderWay
<1>4. inst' \in [Listener -> {NoListener} \cup Instance] /\ inst'[i] = new
        /\ \A j \in Listener \ {i} : inst'[j] = inst[j]
  BY <1>1, <1>3, Typed
<1>5. listeners' \in [Registry -> {0} \cup Listener] /\ listeners'[call[c].reg] = i
        /\ \A r \in Registry \ {call[c].reg} : listeners'[r] = listeners[r]
  BY <1>1, <1>3, Typed
<1> QED
  BY <1>1, <1>2, <1>3, <1>4, <1>5, Fields DEF Made
-----------------------------------------------------------------------------
(* Type correctness, and the listeners at hand *)

TInv == TypeOK /\ ListenersMade

(* Type correctness, from the variables' sets.                             *)
LEMMA TypedStep ==
  ASSUME portsLock' \subseteq Port, regListenersLock' \subseteq Registry,
         listeners' \in [Registry -> {0} \cup Listener],
         inst' \in [Listener -> {NoListener} \cup Instance],
         call' \in [Caller -> {Idle} \cup UnderWay]
  PROVE  TypeOK'
BY DEF TypeOK, Instance, UnderWay

(* A step that keeps the listeners that were made, and hands no caller and *)
(* no registry another one, keeps ListenersMade.                           *)
LEMMA ListenersKept ==
  ASSUME TInv,
         \A i \in Listener : Made(i) => Made(i)' /\ inst'[i].reg = inst[i].reg,
         \A r \in Registry : listeners'[r] \in {0, listeners[r]},
         \A c \in Caller :
           \/ call'[c] \in {Idle, call[c]}
           \/ /\ call[c] # Idle /\ call'[c].ln = call[c].ln
              /\ call'[c].step \in {"cancel", "wait"} => call[c].step \in {"cancel", "wait"}
           \/ call'[c].ln = 0 /\ call'[c].step \notin {"cancel", "wait"}
  PROVE  ListenersMade'
<1>1. \A r \in Registry : listeners[r] \in {0} \cup Listener
  BY Typed DEF TInv
<1>2. \A c \in Caller : call[c] # Idle => call[c].ln \in {0} \cup Listener
  BY Typed DEF TInv, UnderWay
<1>3. \A r \in Registry : listeners'[r] # 0 =>
        inst'[listeners'[r]] # NoListener /\ inst'[listeners'[r]].reg = r
  BY <1>1 DEF TInv, ListenersMade, Made
<1>4. \A c \in Caller : call'[c] # Idle /\ call'[c].ln # 0 => inst'[call'[c].ln] # NoListener
  BY <1>2 DEF TInv, ListenersMade, Made
<1>5. \A c \in Caller : call'[c].step \in {"cancel", "wait"} => call'[c].ln # 0
  BY Fields DEF TInv, ListenersMade, Idle
<1> QED
  BY <1>3, <1>4, <1>5 DEF ListenersMade, Made

(* What a cleanup does to the keys and the map.                            *)
LEMMA Cleaned ==
  ASSUME TInv, NEW step \in Cleaning, NEW r \in Registry, NEW pt \in Port, Cleanup(step, r, pt)
  PROVE  /\ portsLock' \subseteq portsLock /\ regListenersLock' \subseteq regListenersLock
         /\ step = "port" => pt \notin portsLock' /\ UNCHANGED <<listeners, regListenersLock>>
         /\ step = "reg" => r \notin regListenersLock' /\ UNCHANGED <<listeners, portsLock>>
         /\ step = "entry" => UNCHANGED <<portsLock, regListenersLock>>
         /\ portsLock \ {pt} \subseteq portsLock'
         /\ regListenersLock \ {r} \subseteq regListenersLock'
         /\ listeners' \in [Registry -> {0} \cup Listener]
         /\ \A s \in Registry : listeners'[s] = IF step = "entry" /\ s = r THEN 0 ELSE listeners[s]
BY Typed DEF TInv, Cleanup, UnlockKeys, Cleaning

(* TInv is inductive.                                                      *)
LEMMA TInvStep == TInv /\ [Next]_vars => TInv'
<1> SUFFICES ASSUME TInv, [Next]_vars PROVE TInv'
  OBVIOUS
<1>t. /\ TypeOK /\ ListenersMade
      /\ portsLock \subseteq Port /\ regListenersLock \subseteq Registry
      /\ listeners \in [Registry -> {0} \cup Listener]
      /\ inst \in [Listener -> {NoListener} \cup Instance]
      /\ call \in [Caller -> {Idle} \cup UnderWay]
  BY Typed DEF TInv
<1>k. ASSUME portsLock' \subseteq Port, regListenersLock' \subseteq Registry,
             listeners' = listeners, inst' = inst,
             NEW c \in Caller, call[c] # Idle,
             \/ Return(c)
             \/ \E step \in {"check", "giveUp", "insert"} \cup Cleaning : GoTo(c, step)
             \/ call[c].step = "cancel" /\ GoTo(c, "wait")
      PROVE  TInv'
  <2>1. CASE Return(c)
    <3>1. /\ call' \in [Caller -> {Idle} \cup UnderWay]
          /\ \A d \in Caller : call'[d] \in {Idle, call[d]}
      BY <1>t, <2>1, CallerReturns
    <3> QED
      BY <1>t, <1>k, <3>1, TypedStep, ListenersKept DEF TInv, Made
  <2>2. ASSUME NEW step \in {"lockReg", "giveUp", "check", "insert", "cancel", "wait"} \cup Cleaning,
               GoTo(c, step),
               step \in {"cancel", "wait"} => call[c].step = "cancel"
        PROVE  TInv'
    <3>1. /\ call' \in [Caller -> {Idle} \cup UnderWay]
          /\ call'[c].step = step /\ call'[c].ln = call[c].ln
          /\ \A d \in Caller \ {c} : call'[d] = call[d]
      BY <1>t, <1>k, <2>2, CallerMoves
    <3> QED
      BY <1>t, <1>k, <2>2, <3>1, TypedStep, ListenersKept DEF TInv, Made
  <2> QED
    BY <1>k, <2>1, <2>2 DEF Cleaning
<1>l. ASSUME portsLock' \subseteq Port, regListenersLock' \subseteq Registry,
             listeners' \in [Registry -> {0} \cup Listener], call' = call,
             \A r \in Registry : listeners'[r] \in {0, listeners[r]},
             NEW i \in Listener, Made(i),
             \/ \E serve \in {"serving", "finished"} \cup Cleaning :
                  inst' = [inst EXCEPT ![i].serve = serve]
             \/ \E shut \in {"draining", "finished"} \cup Cleaning :
                  inst' = [inst EXCEPT ![i].shut = shut]
      PROVE  TInv'
  <2>1. /\ inst' \in [Listener -> {NoListener} \cup Instance]
        /\ Made(i)' /\ inst'[i].reg = inst[i].reg /\ \A j \in Listener \ {i} : inst'[j] = inst[j]
    BY <1>t, <1>l, ServeMoves, ShutMoves
  <2> QED
    BY <1>t, <1>l, <2>1, TypedStep, ListenersKept DEF TInv, Made
<1>i. \A c \in Caller : call[c].step # "idle" => call[c] # Idle /\ call[c] \in UnderWay
  BY <1>t, Typed
<1>1. ASSUME NEW c \in Caller, NEW r \in Registry, NEW pt \in Port, LockPort(c, r, pt)
      PROVE  TInv'
  <2>1. [step |-> "lockReg", reg |-> r, port |-> pt, ln |-> 0] \in UnderWay
    BY DEF UnderWay
  <2>2. /\ call' = [call EXCEPT ![c] = [step |-> "lockReg", reg |-> r, port |-> pt, ln |-> 0]]
        /\ portsLock' \subseteq Port /\ UNCHANGED <<regListenersLock, listeners, inst>>
    BY <1>1, <1>t DEF LockPort, LockKey
  <2>3. /\ call' \in [Caller -> {Idle} \cup UnderWay]
        /\ call'[c].ln = 0 /\ call'[c].step = "lockReg"
        /\ \A d \in Caller \ {c} : call'[d] = call[d]
    BY <1>t, <2>1, <2>2
  <2> QED
    BY <1>t, <2>2, <2>3, TypedStep, ListenersKept DEF TInv, Made
<1>2. ASSUME NEW c \in Caller, LockReg(c) PROVE TInv'
  <2>1. call[c] # Idle /\ call[c].reg \in Registry
    BY <1>2, <1>i DEF LockReg, At, UnderWay
  <2> QED
    BY <1>2, <1>k, <1>t, <2>1 DEF LockReg, LockKey
<1>3. ASSUME NEW c \in Caller, GiveUp(c) \/ CheckEntry(c) PROVE TInv'
  <2>1. call[c] # Idle
    BY <1>3, <1>i DEF GiveUp, CheckEntry, At
  <2> QED
    BY <1>3, <1>k, <1>t, <2>1 DEF GiveUp, CheckEntry, UnlockKeys, Cleaning
<1>4. ASSUME NEW c \in Caller, Insert(c) PROVE TInv'
  <2>1. PICK i \in Listener :
           /\ Unused(i)
           /\ inst' \in [Listener -> {NoListener} \cup Instance]
           /\ Made(i)' /\ inst'[i].reg = call[c].reg
           /\ \A j \in Listener \ {i} : inst'[j] = inst[j]
           /\ call[c].reg \in Registry
           /\ listeners' \in [Registry -> {0} \cup Listener]
           /\ listeners'[call[c].reg] = i
           /\ \A r \in Registry \ {call[c].reg} : listeners'[r] = listeners[r]
    BY <1>4, <1>t, Inserted
  <2>2. /\ \A r \in Registry : listeners[r] # i
        /\ \A d \in Caller : call[d] # Idle => call[d].ln # i
    BY <1>t, <2>1, UnusedFree
  <2>3. /\ Return(c) /\ UNCHANGED <<portsLock, regListenersLock>>
    BY <1>4 DEF Insert
  <2>4. /\ call' \in [Caller -> {Idle} \cup UnderWay]
        /\ \A d \in Caller : call'[d] \in {Idle, call[d]}
    BY <1>t, <2>3, CallerReturns
  <2>5. TypeOK'
    BY <1>t, <2>1, <2>3, <2>4, TypedStep
  <2>6. \A r \in Registry : listeners'[r] # 0 =>
          inst'[listeners'[r]] # NoListener /\ inst'[listeners'[r]].reg = r
    <3> SUFFICES ASSUME NEW r \in Registry, r # call[c].reg, listeners[r] # 0
                 PROVE  inst'[listeners[r]] # NoListener /\ inst'[listeners[r]].reg = r
      BY <2>1 DEF Made
    <3>1. listeners[r] \in Listener \ {i} /\ Made(listeners[r]) /\ inst[listeners[r]].reg = r
      BY <1>t, <2>2 DEF ListenersMade
    <3> QED
      BY <2>1, <3>1 DEF Made
  <2>7. \A d \in Caller : call'[d] # Idle /\ call'[d].ln # 0 => inst'[call'[d].ln] # NoListener
    <3> SUFFICES ASSUME NEW d \in Caller, call[d] # Idle, call[d].ln # 0
                 PROVE  inst'[call[d].ln] # NoListener
      BY <2>4
    <3>1. call[d].ln \in Listener \ {i} /\ Made(call[d].ln)
      BY <1>t, <2>2, Typed DEF ListenersMade, UnderWay
    <3> QED
      BY <2>1, <3>1 DEF Made
  <2>8. \A d \in Caller : call'[d].step \in {"cancel", "wait"} => call'[d].ln # 0
    BY <1>t, <2>4, Fields DEF ListenersMade
  <2> QED
    BY <2>5, <2>6, <2>7, <2>8 DEF TInv, ListenersMade, Made
<1>5. ASSUME NEW c \in Caller, NEW r \in Registry, FindEntry(c, r) PROVE TInv'
  <2> DEFINE i == listeners[r]
  <2>1. i \in Listener /\ Made(i) /\ inst[i] \in Instance
    BY <1>5, <1>t, Typed DEF FindEntry, ListenersMade
  <2>2. [step |-> "cancel", reg |-> r, port |-> inst[i].port, ln |-> i] \in UnderWay
    BY <2>1 DEF UnderWay, Instance
  <2>3. /\ call' = [call EXCEPT ![c] =
                      [step |-> "cancel", reg |-> r, port |-> inst[i].port, ln |-> i]]
        /\ UNCHANGED <<portsLock, regListenersLock, listeners, inst>>
    BY <1>5 DEF FindEntry
  <2>4. /\ call' \in [Caller -> {Idle} \cup UnderWay] /\ call'[c].ln = i
        /\ \A d \in Caller \ {c} : call'[d] = call[d]
    BY <1>t, <2>2, <2>3
  <2>5. i # 0
    BY <2>1 DEF Listener
  <2>6. ListenersMade'
    BY <1>t, <2>1, <2>3, <2>4, <2>5 DEF ListenersMade, Made
  <2> QED
    BY <1>t, <2>3, <2>4, <2>6, TypedStep DEF TInv
<1>6. ASSUME NEW c \in Caller, Cancel(c) PROVE TInv'
  <2>1. PICK i \in Listener : i = call[c].ln /\ Made(i) /\ call[c] # Idle
    BY <1>6, <1>i, <1>t DEF Cancel, At, ListenersMade, UnderWay
  <2>2. /\ inst' = [inst EXCEPT ![i].cancelled = TRUE] /\ GoTo(c, "wait")
        /\ UNCHANGED <<portsLock, regListenersLock, listeners>> /\ call[c].step = "cancel"
    BY <1>6, <2>1 DEF Cancel, At
  <2>3. /\ inst' \in [Listener -> {NoListener} \cup Instance]
        /\ Made(i)' /\ inst'[i].reg = inst[i].reg /\ \A j \in Listener \ {i} : inst'[j] = inst[j]
    BY <1>t, <2>1, <2>2, ListenerCancelled
  <2>4. /\ call' \in [Caller -> {Idle} \cup UnderWay]
        /\ call'[c].ln = call[c].ln /\ \A d \in Caller \ {c} : call'[d] = call[d]
    BY <1>t, <2>1, <2>2, CallerMoves
  <2> QED
    BY <1>t, <2>1, <2>2, <2>3, <2>4, TypedStep, ListenersKept DEF TInv, Made
<1>7. ASSUME NEW c \in Caller, Unregistered(c) \/ TimedOut(c) PROVE TInv'
  <2>1. call[c] # Idle
    BY <1>7, <1>i DEF Unregistered, TimedOut, At
  <2> QED
    BY <1>7, <1>k, <1>t, <2>1 DEF Unregistered, TimedOut, Cleaning
<1>8. ASSUME NEW c \in Caller, CallCleanup(c) PROVE TInv'
  <2>1. /\ call[c] # Idle /\ call[c].reg \in Registry /\ call[c].port \in Port
        /\ call[c].step \in Cleaning
    BY <1>8, <1>i DEF CallCleanup, Cleaning, UnderWay
  <2>2. Cleanup(call[c].step, call[c].reg, call[c].port) /\ inst' = inst
    BY <1>8 DEF CallCleanup
  <2>3. /\ portsLock' \subseteq Port /\ regListenersLock' \subseteq Registry
        /\ listeners' \in [Registry -> {0} \cup Listener]
        /\ \A s \in Registry : listeners'[s] \in {0, listeners[s]}
    BY <1>t, <2>1, <2>2, Cleaned
  <2>4. CASE Return(c)
    <3>1. /\ call' \in [Caller -> {Idle} \cup UnderWay]
          /\ \A d \in Caller : call'[d] \in {Idle, call[d]}
      BY <1>t, <2>4, CallerReturns
    <3> QED
      BY <1>t, <2>2, <2>3, <3>1, TypedStep, ListenersKept DEF TInv, Made
  <2>5. CASE ~At(c, "reg")
    <3>1. PICK step \in Cleaning : GoTo(c, step)
      BY <1>8, <2>1, <2>5 DEF CallCleanup, At, After, Cleaning
    <3>2. /\ call' \in [Caller -> {Idle} \cup UnderWay]
          /\ call'[c].ln = call[c].ln /\ call'[c].step = step
          /\ \A d \in Caller \ {c} : call'[d] = call[d]
      BY <1>t, <2>1, <3>1, CallerMoves
    <3> QED
      BY <1>t, <2>1, <2>2, <2>3, <3>2, TypedStep, ListenersKept DEF TInv, Made, Cleaning
  <2> QED
    BY <1>8, <2>4, <2>5 DEF CallCleanup
<1>9. ASSUME NEW i \in Listener,
             Listen(i) \/ ServerClosed(i) \/ ServerFails(i) \/ Shutdown(i) \/ Drained(i)
      PROVE  TInv'
  BY <1>9, <1>l, <1>t
     DEF Listen, ServerClosed, ServerFails, Shutdown, Drained, Cleaning
<1>10. ASSUME NEW i \in Listener, ServeCleanup(i) \/ ShutCleanup(i) PROVE TInv'
  <2>1. Made(i) /\ inst[i].reg \in Registry /\ inst[i].port \in Port
    BY <1>10, <1>t, Typed DEF ServeCleanup, ShutCleanup, Instance
  <2>2. PICK step \in Cleaning :
          /\ Cleanup(step, inst[i].reg, inst[i].port)
          /\ \/ inst' = [inst EXCEPT ![i].serve = After(step)]
             \/ inst' = [inst EXCEPT ![i].shut = After(step)]
          /\ call' = call
    BY <1>10 DEF ServeCleanup, ShutCleanup
  <2>3. After(step) \in {"finished"} \cup Cleaning
    BY DEF After, Cleaning
  <2>4. /\ portsLock' \subseteq Port /\ regListenersLock' \subseteq Registry
        /\ listeners' \in [Registry -> {0} \cup Listener]
        /\ \A s \in Registry : listeners'[s] \in {0, listeners[s]}
    BY <1>t, <2>1, <2>2, Cleaned
  <2> QED
    BY <1>l, <2>1, <2>2, <2>3, <2>4
<1>11. ASSUME UNCHANGED vars PROVE TInv'
  <2>1. UNCHANGED <<portsLock, regListenersLock, listeners, inst, call>>
    BY <1>11 DEF vars
  <2> QED
    BY <1>t, <2>1, TypedStep, ListenersKept DEF TInv, Made
<1> QED
  BY Zenon, <1>1, <1>2, <1>3, <1>4, <1>5, <1>6, <1>7, <1>8, <1>9, <1>10, <1>11
     DEF Next, CallStep, Serve, Shut

(* TInv holds at the beginning.                                            *)
LEMMA TInvInit == Init => TInv
BY Fields DEF Init, TInv, TypeOK, ListenersMade, Idle

(* Every reachable state is well typed: locks, map, goroutines and calls   *)
(* are within what the constants give.                                     *)
THEOREM TypeCorrect == Spec => []TypeOK
<1>1. TInv => TypeOK
  BY DEF TInv
<1> QED
  BY <1>1, TInvInit, TInvStep, PTL DEF Spec
-----------------------------------------------------------------------------
(* No key outlives its holders *)

(* Whoever has a key to free still has it after the step, or its listener  *)
(* has, or the key was freed.                                              *)
LEMMA HoldersKept ==
  ASSUME PortsToBeFreed, RegistriesToBeFreed,
         \A pt \in portsLock' :
           pt \in portsLock \/ \E c \in Caller : CallerFreesPort(c)' /\ call'[c].port = pt,
         \A r \in regListenersLock' :
           r \in regListenersLock \/ \E c \in Caller : CallerFreesReg(c)' /\ call'[c].reg = r,
         \A c \in Caller : CallerFreesPort(c) /\ call[c].port \in portsLock' =>
           \/ CallerFreesPort(c)' /\ call'[c].port = call[c].port
           \/ \E i \in Listener : FreesPort(i)' /\ inst'[i].port = call[c].port,
         \A c \in Caller : CallerFreesReg(c) /\ call[c].reg \in regListenersLock' =>
           \/ CallerFreesReg(c)' /\ call'[c].reg = call[c].reg
           \/ \E i \in Listener : FreesReg(i)' /\ inst'[i].reg = call[c].reg,
         \A i \in Listener : FreesPort(i) /\ inst[i].port \in portsLock' =>
           FreesPort(i)' /\ inst'[i].port = inst[i].port,
         \A i \in Listener : FreesReg(i) /\ inst[i].reg \in regListenersLock' =>
           FreesReg(i)' /\ inst'[i].reg = inst[i].reg
  PROVE  PortsToBeFreed' /\ RegistriesToBeFreed'
<1>1. PortsToBeFreed'
  <2> SUFFICES ASSUME NEW pt \in portsLock', pt \in portsLock
               PROVE  \/ \E c \in Caller : CallerFreesPort(c)' /\ call'[c].port = pt
                      \/ \E i \in Listener : FreesPort(i)' /\ inst'[i].port = pt
    BY DEF PortsToBeFreed
  <2>1. CASE \E c \in Caller : CallerFreesPort(c) /\ call[c].port = pt
    BY <2>1
  <2>2. CASE \E i \in Listener : FreesPort(i) /\ inst[i].port = pt
    BY <2>2
  <2> QED
    BY <2>1, <2>2 DEF PortsToBeFreed
<1>2. RegistriesToBeFreed'
  <2> SUFFICES ASSUME NEW r \in regListenersLock', r \in regListenersLock
               PROVE  \/ \E c \in Caller : CallerFreesReg(c)' /\ call'[c].reg = r
                      \/ \E i \in Listener : FreesReg(i)' /\ inst'[i].reg = r
    BY DEF RegistriesToBeFreed
  <2>1. CASE \E c \in Caller : CallerFreesReg(c) /\ call[c].reg = r
    BY <2>1
  <2>2. CASE \E i \in Listener : FreesReg(i) /\ inst[i].reg = r
    BY <2>2
  <2> QED
    BY <2>1, <2>2 DEF RegistriesToBeFreed
<1> QED
  BY <1>1, <1>2

(* KInv is inductive.                                                      *)
LEMMA KInvStep == KInv /\ [Next]_vars => KInv'
<1> SUFFICES ASSUME KInv, [Next]_vars PROVE KInv'
  OBVIOUS
<1>t. TInv /\ TypeOK /\ TInv'
  BY TInvStep DEF KInv, TInv
<1>h. PortsToBeFreed /\ RegistriesToBeFreed
  BY DEF KInv
<1> SUFFICES PortsToBeFreed' /\ RegistriesToBeFreed'
  BY <1>t DEF KInv, TInv
<1> DEFINE Goal == PortsToBeFreed' /\ RegistriesToBeFreed'
<1>i. \A c \in Caller : call[c].step # "idle" => call[c] # Idle /\ call[c] \in UnderWay
  BY <1>t, Typed
(* One caller moves on.                                                    *)
<1>g. ASSUME inst' = inst, NEW c \in Caller, call[c] # Idle,
             NEW step \in {"lockReg", "giveUp", "check", "insert", "cancel", "wait"} \cup Cleaning,
             GoTo(c, step), portsLock' \subseteq portsLock,
             \/ regListenersLock' \subseteq regListenersLock
             \/ step = "check" /\ regListenersLock' = regListenersLock \cup {call[c].reg},
             CallerFreesPort(c) /\ call[c].port \in portsLock'
               => step \in {"lockReg", "giveUp", "check", "insert", "entry", "port"},
             CallerFreesReg(c) /\ call[c].reg \in regListenersLock'
               => step \in {"check", "insert", "entry", "port", "reg"}
      PROVE  Goal
  <2>1. /\ call'[c].step = step /\ call'[c].reg = call[c].reg /\ call'[c].port = call[c].port
        /\ \A d \in Caller \ {c} : call'[d] = call[d]
    BY <1>t, <1>g, CallerMoves
  <2>2. \A i \in Listener : /\ FreesPort(i) => FreesPort(i)' /\ inst'[i].port = inst[i].port
                            /\ FreesReg(i) => FreesReg(i)' /\ inst'[i].reg = inst[i].reg
    BY <1>g DEF FreesPort, FreesReg, Made
  <2>3. \A d \in Caller :
          /\ CallerFreesPort(d) /\ call[d].port \in portsLock' =>
               CallerFreesPort(d)' /\ call'[d].port = call[d].port
          /\ CallerFreesReg(d) /\ call[d].reg \in regListenersLock' =>
               CallerFreesReg(d)' /\ call'[d].reg = call[d].reg
    BY <1>g, <2>1 DEF CallerFreesPort, CallerFreesReg
  <2>4. \A r \in regListenersLock' :
          r \in regListenersLock \/ \E d \in Caller : CallerFreesReg(d)' /\ call'[d].reg = r
    BY <1>g, <2>1 DEF CallerFreesReg
  <2> QED
    BY <1>g, <1>h, <2>2, <2>3, <2>4, HoldersKept
(* One caller is done.                                                     *)
<1>r. ASSUME inst' = inst, NEW c \in Caller, Return(c),
             portsLock' \subseteq portsLock, regListenersLock' \subseteq regListenersLock,
             CallerFreesPort(c) => call[c].port \notin portsLock',
             CallerFreesReg(c) => call[c].reg \notin regListenersLock'
      PROVE  Goal
  <2>1. \A d \in Caller \ {c} : call'[d] = call[d]
    BY <1>t, <1>r, CallerReturns
  <2>2. \A i \in Listener : /\ FreesPort(i) => FreesPort(i)' /\ inst'[i].port = inst[i].port
                            /\ FreesReg(i) => FreesReg(i)' /\ inst'[i].reg = inst[i].reg
    BY <1>r DEF FreesPort, FreesReg, Made
  <2>3. \A d \in Caller :
          /\ CallerFreesPort(d) /\ call[d].port \in portsLock' =>
               CallerFreesPort(d)' /\ call'[d].port = call[d].port
          /\ CallerFreesReg(d) /\ call[d].reg \in regListenersLock' =>
               CallerFreesReg(d)' /\ call'[d].reg = call[d].reg
    BY <1>r, <2>1 DEF CallerFreesPort, CallerFreesReg
  <2> QED
    BY <1>r, <1>h, <2>2, <2>3, HoldersKept
(* One goroutine of a listener moves on.                                   *)
<1>l. ASSUME call' = call, NEW i \in Listener,
             \A j \in Listener \ {i} : inst'[j] = inst[j],
             inst'[i].port = inst[i].port, inst'[i].reg = inst[i].reg,
             portsLock' \subseteq portsLock, regListenersLock' \subseteq regListenersLock,
             FreesPort(i) /\ inst[i].port \in portsLock' => FreesPort(i)',
             FreesReg(i) /\ inst[i].reg \in regListenersLock' => FreesReg(i)'
      PROVE  Goal
  <2>1. \A j \in Listener :
          /\ FreesPort(j) /\ inst[j].port \in portsLock' =>
               FreesPort(j)' /\ inst'[j].port = inst[j].port
          /\ FreesReg(j) /\ inst[j].reg \in regListenersLock' =>
               FreesReg(j)' /\ inst'[j].reg = inst[j].reg
    BY <1>l DEF FreesPort, FreesReg, Made
  <2>2. \A d \in Caller : /\ CallerFreesPort(d) =>
                               CallerFreesPort(d)' /\ call'[d].port = call[d].port
                          /\ CallerFreesReg(d) =>
                               CallerFreesReg(d)' /\ call'[d].reg = call[d].reg
    BY <1>l DEF CallerFreesPort, CallerFreesReg
  <2> QED
    BY <1>l, <1>h, <2>1, <2>2, HoldersKept
<1>1. ASSUME NEW c \in Caller, NEW r \in Registry, NEW pt \in Port, LockPort(c, r, pt)
      PROVE  Goal
  <2>1. /\ call' = [call EXCEPT ![c] = [step |-> "lockReg", reg |-> r, port |-> pt, ln |-> 0]]
        /\ portsLock' = portsLock \cup {pt} /\ call[c].step = "idle"
        /\ UNCHANGED <<regListenersLock, listeners, inst>>
    BY <1>1 DEF LockPort, LockKey, At
  <2>2. /\ call'[c].step = "lockReg" /\ call'[c].port = pt
        /\ \A d \in Caller \ {c} : call'[d] = call[d]
    BY <1>t, <2>1, Typed
  <2>3. \A i \in Listener : /\ FreesPort(i) => FreesPort(i)' /\ inst'[i].port = inst[i].port
                            /\ FreesReg(i) => FreesReg(i)' /\ inst'[i].reg = inst[i].reg
    BY <2>1 DEF FreesPort, FreesReg, Made
  <2>4. \A d \in Caller : /\ CallerFreesPort(d) =>
                               CallerFreesPort(d)' /\ call'[d].port = call[d].port
                          /\ CallerFreesReg(d) =>
                               CallerFreesReg(d)' /\ call'[d].reg = call[d].reg
    BY <2>1, <2>2 DEF CallerFreesPort, CallerFreesReg
  <2>5. CallerFreesPort(c)' /\ call'[c].port = pt
    BY <2>2 DEF CallerFreesPort
  <2> QED
    BY <1>h, <2>1, <2>3, <2>4, <2>5, HoldersKept
<1>2. ASSUME NEW c \in Caller, LockReg(c) PROVE Goal
  <2>1. call[c] # Idle /\ inst' = inst /\ portsLock' = portsLock /\ call[c].step = "lockReg"
    BY <1>2, <1>i DEF LockReg, At
  <2>2. \/ regListenersLock' = regListenersLock \cup {call[c].reg} /\ GoTo(c, "check")
        \/ regListenersLock' = regListenersLock /\ GoTo(c, "giveUp")
    BY <1>2 DEF LockReg, LockKey
  <2>3. CASE regListenersLock' = regListenersLock \cup {call[c].reg} /\ GoTo(c, "check")
    BY <1>g, <2>1, <2>3
  <2>4. CASE regListenersLock' = regListenersLock /\ GoTo(c, "giveUp")
    <3>1. ~CallerFreesReg(c)
      BY <2>1 DEF CallerFreesReg
    <3> QED
      BY <1>g, <2>1, <2>4, <3>1
  <2> QED
    BY <2>2, <2>3, <2>4
<1>3. ASSUME NEW c \in Caller, GiveUp(c) PROVE Goal
  <2>1. /\ inst' = inst /\ call[c].step = "giveUp" /\ Return(c)
        /\ portsLock' = portsLock \ {call[c].port} /\ regListenersLock' = regListenersLock
    BY <1>3 DEF GiveUp, At, UnlockKeys
  <2> QED
    BY <1>r, <2>1 DEF CallerFreesReg
<1>4. ASSUME NEW c \in Caller, CheckEntry(c) PROVE Goal
  <2>1. /\ inst' = inst /\ call[c].step = "check" /\ call[c] # Idle
        /\ GoTo(c, "entry") \/ GoTo(c, "insert")
        /\ portsLock' = portsLock /\ regListenersLock' = regListenersLock
    BY <1>4, <1>i DEF CheckEntry, At
  <2>2. {"entry", "insert"} \subseteq {"insert"} \cup Cleaning
    BY DEF Cleaning
  <2>3. CASE GoTo(c, "entry")
    BY <1>g, <2>1, <2>2, <2>3
  <2>4. CASE GoTo(c, "insert")
    BY <1>g, <2>1, <2>2, <2>4
  <2> QED
    BY <2>1, <2>3, <2>4
<1>5. ASSUME NEW c \in Caller, Insert(c) PROVE Goal
  <2>1. PICK i \in Listener :
          /\ Unused(i)
          /\ Made(i)' /\ inst'[i].reg = call[c].reg /\ inst'[i].port = call[c].port
          /\ inst'[i].serve = "delayed" /\ inst'[i].shut = "waiting"
          /\ \A j \in Listener \ {i} : inst'[j] = inst[j]
    BY <1>5, <1>t, Inserted DEF TInv
  <2>2. ~FreesPort(i) /\ ~FreesReg(i)
    <3>1. TypeOK /\ ListenersMade /\ Unused(i)
      BY <1>t, <2>1 DEF TInv
    <3> QED
      BY <3>1, UnusedFree
  <2>3. FreesPort(i)' /\ FreesReg(i)'
    <3>1. FreesPort(i)'
      BY <2>1 DEF FreesPort
    <3> QED
      BY <3>1 DEF FreesReg
  <2>4. \A j \in Listener : /\ FreesPort(j) => FreesPort(j)' /\ inst'[j].port = inst[j].port
                            /\ FreesReg(j) => FreesReg(j)' /\ inst'[j].reg = inst[j].reg
    <3> SUFFICES ASSUME NEW j \in Listener, j # i
                 PROVE  /\ FreesPort(j) => FreesPort(j)' /\ inst'[j].port = inst[j].port
                        /\ FreesReg(j) => FreesReg(j)' /\ inst'[j].reg = inst[j].reg
      BY <2>2
    <3> QED
      BY <2>1 DEF FreesPort, FreesReg, Made
  <2>5. Return(c) /\ UNCHANGED <<portsLock, regListenersLock>>
    BY <1>5 DEF Insert
  <2>6. \A d \in Caller \ {c} : call'[d] = call[d]
    BY <1>t, <2>5, CallerReturns
  <2>7. \A d \in Caller :
          /\ CallerFreesPort(d) =>
               \/ CallerFreesPort(d)' /\ call'[d].port = call[d].port
               \/ \E j \in Listener : FreesPort(j)' /\ inst'[j].port = call[d].port
          /\ CallerFreesReg(d) =>
               \/ CallerFreesReg(d)' /\ call'[d].reg = call[d].reg
               \/ \E j \in Listener : FreesReg(j)' /\ inst'[j].reg = call[d].reg
    BY <2>1, <2>3, <2>6 DEF CallerFreesPort, CallerFreesReg
  <2> QED
    BY <1>h, <2>4, <2>5, <2>7, HoldersKept
<1>6. ASSUME NEW c \in Caller, NEW r \in Registry, FindEntry(c, r) PROVE Goal
  <2>1. /\ call[c].step = "idle" /\ inst' = inst
        /\ portsLock' = portsLock /\ regListenersLock' = regListenersLock
        /\ \A d \in Caller \ {c} : call'[d] = call[d]
    BY <1>6, <1>t, Typed DEF FindEntry, At
  <2>2. \A i \in Listener : /\ FreesPort(i) => FreesPort(i)' /\ inst'[i].port = inst[i].port
                            /\ FreesReg(i) => FreesReg(i)' /\ inst'[i].reg = inst[i].reg
    BY <2>1 DEF FreesPort, FreesReg, Made
  <2>3. \A d \in Caller : /\ CallerFreesPort(d) =>
                               CallerFreesPort(d)' /\ call'[d].port = call[d].port
                          /\ CallerFreesReg(d) =>
                               CallerFreesReg(d)' /\ call'[d].reg = call[d].reg
    BY <2>1 DEF CallerFreesPort, CallerFreesReg
  <2> QED
    BY <1>h, <2>1, <2>2, <2>3, HoldersKept
<1>7. ASSUME NEW c \in Caller, Cancel(c) PROVE Goal
  <2>1. PICK i \in Listener : i = call[c].ln /\ Made(i) /\ call[c] # Idle
    BY <1>7, <1>i, <1>t DEF Cancel, At, TInv, ListenersMade, UnderWay
  <2>2. /\ inst' = [inst EXCEPT ![i].cancelled = TRUE] /\ GoTo(c, "wait")
        /\ UNCHANGED <<portsLock, regListenersLock>> /\ call[c].step = "cancel"
    BY <1>7, <2>1 DEF Cancel, At
  <2>3. /\ Made(i)' /\ inst'[i].reg = inst[i].reg /\ inst'[i].port = inst[i].port
        /\ inst'[i].cancelled = TRUE /\ inst'[i].serve = inst[i].serve
        /\ inst'[i].shut = inst[i].shut
        /\ \A j \in Listener \ {i} : inst'[j] = inst[j]
    BY <1>t, <2>1, <2>2, ListenerCancelled
  <2>4. \A d \in Caller \ {c} : call'[d] = call[d]
    BY <1>t, <2>1, <2>2, CallerMoves
  <2>5. \A j \in Listener : /\ FreesPort(j) => FreesPort(j)' /\ inst'[j].port = inst[j].port
                            /\ FreesReg(j) => FreesReg(j)' /\ inst'[j].reg = inst[j].reg
    BY <2>3 DEF FreesPort, FreesReg, Made
  <2>6. \A d \in Caller : /\ CallerFreesPort(d) =>
                               CallerFreesPort(d)' /\ call'[d].port = call[d].port
                          /\ CallerFreesReg(d) =>
                               CallerFreesReg(d)' /\ call'[d].reg = call[d].reg
    BY <2>2, <2>4 DEF CallerFreesPort, CallerFreesReg
  <2> QED
    BY <1>h, <2>2, <2>5, <2>6, HoldersKept
<1>8. ASSUME NEW c \in Caller, Unregistered(c) \/ TimedOut(c) PROVE Goal
  <2>1. /\ inst' = inst /\ call[c].step = "wait" /\ call[c] # Idle
        /\ GoTo(c, "entry") \/ Return(c)
        /\ portsLock' = portsLock /\ regListenersLock' = regListenersLock
    BY <1>8, <1>i DEF Unregistered, TimedOut, At
  <2>2. ~CallerFreesPort(c) /\ ~CallerFreesReg(c) /\ "entry" \in Cleaning
    BY <2>1 DEF CallerFreesPort, CallerFreesReg, Cleaning
  <2>3. CASE GoTo(c, "entry")
    BY <1>g, <2>1, <2>2, <2>3
  <2>4. CASE Return(c)
    BY <1>r, <2>1, <2>2, <2>4
  <2> QED
    BY <2>1, <2>3, <2>4
<1>9. ASSUME NEW c \in Caller, CallCleanup(c) PROVE Goal
  <2>1. /\ call[c] # Idle /\ call[c].reg \in Registry /\ call[c].port \in Port
        /\ call[c].step \in Cleaning
    BY <1>9, <1>i DEF CallCleanup, Cleaning, UnderWay
  <2>2. Cleanup(call[c].step, call[c].reg, call[c].port) /\ inst' = inst
    BY <1>9 DEF CallCleanup
  <2>3. /\ portsLock' \subseteq portsLock /\ regListenersLock' \subseteq regListenersLock
        /\ call[c].step = "port" => call[c].port \notin portsLock'
        /\ call[c].step = "reg" => call[c].reg \notin regListenersLock'
    BY <1>t, <2>1, <2>2, Cleaned
  <2>4. \/ call[c].step = "entry" /\ GoTo(c, "port")
        \/ call[c].step = "port" /\ GoTo(c, "reg")
        \/ call[c].step = "reg" /\ Return(c)
    BY <1>9, <2>1 DEF CallCleanup, At, After, Cleaning
  <2>5. {"port", "reg"} \subseteq Cleaning
    BY DEF Cleaning
  <2>6. CASE call[c].step = "entry" /\ GoTo(c, "port")
    BY <1>g, <2>1, <2>2, <2>3, <2>5, <2>6
  <2>7. CASE call[c].step = "port" /\ GoTo(c, "reg")
    BY <1>g, <2>1, <2>2, <2>3, <2>5, <2>7
  <2>8. CASE call[c].step = "reg" /\ Return(c)
    <3>1. ~CallerFreesPort(c)
      BY <2>8 DEF CallerFreesPort
    <3> QED
      BY <1>r, <2>2, <2>3, <2>8, <3>1
  <2> QED
    BY <2>4, <2>6, <2>7, <2>8
<1>10. ASSUME NEW i \in Listener, Listen(i) \/ ServerClosed(i) \/ ServerFails(i) PROVE Goal
  <2>1. PICK serve \in {"serving", "finished", "entry"} :
          /\ inst' = [inst EXCEPT ![i].serve = serve] /\ Made(i)
          /\ inst[i].serve \in {"delayed", "serving"}
          /\ serve = "finished" => inst[i].shut # "waiting"
          /\ UNCHANGED <<portsLock, regListenersLock, call>>
    BY <1>10 DEF Listen, ServerClosed, ServerFails
  <2>2. /\ Made(i)' /\ inst'[i].reg = inst[i].reg /\ inst'[i].port = inst[i].port
        /\ inst'[i].serve = serve /\ inst'[i].shut = inst[i].shut
        /\ inst'[i].cancelled = inst[i].cancelled
        /\ \A j \in Listener \ {i} : inst'[j] = inst[j]
    BY <1>t, <2>1, ServeMoves DEF Cleaning
  <2>3. (FreesPort(i) => FreesPort(i)') /\ (FreesReg(i) => FreesReg(i)')
    BY <2>1, <2>2 DEF FreesPort, FreesReg
  <2> QED
    BY <1>l, <2>1, <2>2, <2>3
<1>11. ASSUME NEW i \in Listener, Shutdown(i) \/ Drained(i) PROVE Goal
  <2>1. PICK shut \in {"draining", "entry"} :
          /\ inst' = [inst EXCEPT ![i].shut = shut] /\ Made(i)
          /\ inst[i].shut \in {"waiting", "draining"}
          /\ UNCHANGED <<portsLock, regListenersLock, call>>
    BY <1>11 DEF Shutdown, Drained
  <2>2. /\ Made(i)' /\ inst'[i].reg = inst[i].reg /\ inst'[i].port = inst[i].port
        /\ inst'[i].shut = shut /\ \A j \in Listener \ {i} : inst'[j] = inst[j]
    <3>1. shut \in {"waiting", "draining", "finished"} \cup Cleaning
      BY DEF Cleaning
    <3> QED
      BY <1>t, <2>1, <3>1, ShutMoves
  <2>3. FreesPort(i)' /\ FreesReg(i)'
    <3>1. FreesPort(i)'
      BY <2>1, <2>2 DEF FreesPort
    <3> QED
      BY <3>1 DEF FreesReg
  <2> QED
    BY <1>l, <2>1, <2>2, <2>3
<1>12. ASSUME NEW i \in Listener, ServeCleanup(i) \/ ShutCleanup(i) PROVE Goal
  <2>1. Made(i) /\ inst[i].reg \in Registry /\ inst[i].port \in Port
    BY <1>12, <1>t, Typed DEF ServeCleanup, ShutCleanup, Instance
  <2>2. PICK step \in Cleaning, next \in {"finished"} \cup Cleaning :
          /\ Cleanup(step, inst[i].reg, inst[i].port)
          /\ \/ inst' = [inst EXCEPT ![i].serve = next] /\ inst[i].serve = step
             \/ inst' = [inst EXCEPT ![i].shut = next] /\ inst[i].shut = step
          /\ call' = call
          /\ next = After(step)
    <3>1. \A step \in Cleaning : After(step) \in {"finished"} \cup Cleaning
      BY DEF After, Cleaning
    <3> QED
      BY <1>12, <3>1 DEF ServeCleanup, ShutCleanup
  <2>3. \/ step = "entry" /\ next = "port"
        \/ step = "port" /\ next = "reg"
        \/ step = "reg" /\ next = "finished"
    BY <2>2 DEF After, Cleaning
  <2>4. /\ portsLock' \subseteq portsLock /\ regListenersLock' \subseteq regListenersLock
        /\ step = "port" => inst[i].port \notin portsLock'
        /\ step = "reg" => inst[i].reg \notin regListenersLock'
    BY <1>t, <2>1, <2>2, Cleaned
  <2>5. CASE inst' = [inst EXCEPT ![i].serve = next] /\ inst[i].serve = step
    <3>1. /\ Made(i)' /\ inst'[i].reg = inst[i].reg /\ inst'[i].port = inst[i].port
          /\ inst'[i].serve = next /\ inst'[i].shut = inst[i].shut
          /\ inst'[i].cancelled = inst[i].cancelled
          /\ \A j \in Listener \ {i} : inst'[j] = inst[j]
      BY <1>t, <2>1, <2>5, ServeMoves
    <3>2. /\ FreesPort(i) /\ inst[i].port \in portsLock' => FreesPort(i)'
          /\ FreesReg(i) /\ inst[i].reg \in regListenersLock' => FreesReg(i)'
      BY <2>3, <2>4, <2>5, <3>1 DEF FreesPort, FreesReg
    <3> QED
      BY <1>l, <2>2, <2>4, <3>1, <3>2
  <2>6. CASE inst' = [inst EXCEPT ![i].shut = next] /\ inst[i].shut = step
    <3>1. /\ Made(i)' /\ inst'[i].reg = inst[i].reg /\ inst'[i].port = inst[i].port
          /\ inst'[i].shut = next /\ inst'[i].serve = inst[i].serve
          /\ inst'[i].cancelled = inst[i].cancelled
          /\ \A j \in Listener \ {i} : inst'[j] = inst[j]
      BY <1>t, <2>1, <2>6, ShutMoves
    <3>2. /\ FreesPort(i) /\ inst[i].port \in portsLock' => FreesPort(i)'
          /\ FreesReg(i) /\ inst[i].reg \in regListenersLock' => FreesReg(i)'
      BY <2>3, <2>4, <2>6, <3>1 DEF FreesPort, FreesReg
    <3> QED
      BY <1>l, <2>2, <2>4, <3>1, <3>2
  <2> QED
    BY <2>2, <2>5, <2>6
<1>13. ASSUME UNCHANGED vars PROVE Goal
  <2>1. UNCHANGED <<portsLock, regListenersLock, listeners, inst, call>>
    BY <1>13 DEF vars
  <2> QED
    BY <1>h, <2>1
       DEF PortsToBeFreed, RegistriesToBeFreed, CallerFreesPort, CallerFreesReg,
           FreesPort, FreesReg, Made
<1>14. Goal
  <2> HIDE DEF Goal
  <2> QED
    BY Zenon, <1>1, <1>2, <1>3, <1>4, <1>5, <1>6, <1>7, <1>8, <1>9, <1>10, <1>11, <1>12, <1>13
       DEF Next, CallStep, Serve, Shut
<1> QED
  BY <1>14

(* KInv holds of every reachable state.                                    *)
THEOREM KeysInvariant == Spec => []KInv
<1>1. Init => KInv
  BY TInvInit DEF Init, KInv, TInv, PortsToBeFreed, RegistriesToBeFreed
<1> QED
  BY <1>1, KInvStep, PTL DEF Spec

(* Whatever fails or times out, no key outlives those who can release it:  *)
(* the many cleanups of one listener may release the keys of another, but  *)
(* never leave one behind.                                                 *)
THEOREM KeysKeepHolders == Spec => []KeysHaveHolders
<1>1. KInv => KeysHaveHolders
  <2> SUFFICES ASSUME KInv PROVE KeysHaveHolders
    OBVIOUS
  <2>1. \A c \in Caller : CallerFreesPort(c) \/ CallerFreesReg(c) => call[c] # Idle
    BY Fields DEF CallerFreesPort, CallerFreesReg
  <2>2. \A i \in Listener : FreesPort(i) \/ FreesReg(i) => Made(i) /\ MayRelease(i)
    BY DEF FreesPort, FreesReg, MayRelease
  <2> QED
    BY <2>1, <2>2 DEF KInv, PortsToBeFreed, RegistriesToBeFreed, KeysHaveHolders, InUse
<1> QED
  BY <1>1, KeysInvariant, PTL

-----------------------------------------------------------------------------
(* Whatever listens is registered *)

(* Nobody's port is unlocked, if it is not the one who gives it back.      *)
LEMMA PortsKept ==
  ASSUME PortsHeld,
         \A c \in Caller : PortHolder(c)' =>
           /\ PortHolder(c) /\ call'[c].port = call[c].port
           /\ call[c].port \in portsLock => call[c].port \in portsLock',
         \A i \in Listener : HoldsPort(i)' =>
           /\ HoldsPort(i) /\ inst'[i].port = inst[i].port
           /\ inst[i].port \in portsLock => inst[i].port \in portsLock'
  PROVE  PortsHeld'
BY DEF PortsHeld

(* Nobody's registry either.                                               *)
LEMMA RegistriesKept ==
  ASSUME RegistriesHeld,
         \A c \in Caller : RegHolder(c)' =>
           /\ RegHolder(c) /\ call'[c].reg = call[c].reg
           /\ call[c].reg \in regListenersLock => call[c].reg \in regListenersLock',
         \A i \in Listener : HoldsReg(i)' =>
           /\ HoldsReg(i) /\ inst'[i].reg = inst[i].reg
           /\ inst[i].reg \in regListenersLock => inst[i].reg \in regListenersLock'
  PROVE  RegistriesHeld'
BY DEF RegistriesHeld

(* The map stays exact when neither it nor those registered change.        *)
LEMMA EntriesKept ==
  ASSUME TInv, EntriesExact, listeners' = listeners,
         \A i \in Listener : /\ Registered(i)' <=> Registered(i)
                             /\ Registered(i) => inst'[i].reg = inst[i].reg
  PROVE  EntriesExact'
<1>1. \A r \in Registry : listeners[r] \in {0} \cup Listener
  BY Typed DEF TInv
<1>2. \A i \in Listener : Registered(i)' => listeners'[inst'[i].reg] = i
  BY DEF EntriesExact
<1>3. ASSUME NEW r \in Registry, listeners[r] # 0
      PROVE  /\ inst'[listeners'[r]] # NoListener
             /\ inst'[listeners'[r]].shut \in {"waiting", "draining", "entry"}
  <2>1. PICK i \in Listener : i = listeners[r] /\ Registered(i)'
    BY <1>1, <1>3 DEF EntriesExact
  <2> QED
    BY <2>1 DEF Registered, Made
<1> QED
  BY <1>2, <1>3 DEF EntriesExact, Registered, Made

(* LInv is inductive, together with TInv.                                  *)
LEMMA LInvStep ==
  ASSUME ~Timeouts, ~ServerErrors
  PROVE  TInv /\ LInv /\ [Next]_vars => LInv'
<1> SUFFICES ASSUME TInv, LInv, [Next]_vars PROVE LInv'
  OBVIOUS
<1>t. TypeOK /\ ListenersMade /\ TInv
  BY DEF TInv
<1>h. OnlyShutdownsCleanUp /\ PortsHeld /\ RegistriesHeld /\ EntriesExact
  BY DEF LInv
<1>i. \A c \in Caller : call[c].step # "idle" => call[c] # Idle /\ call[c] \in UnderWay
  BY <1>t, Typed
<1> DEFINE Goal == LInv'
(* One caller moves on, and takes no key.                                  *)
<1>c. ASSUME NEW c \in Caller, \A d \in Caller \ {c} : call'[d] = call[d],
             call'[c].step \notin Cleaning,
             PortHolder(c)' => PortHolder(c) /\ call'[c].port = call[c].port,
             RegHolder(c)' => RegHolder(c) /\ call'[c].reg = call[c].reg,
             UNCHANGED <<portsLock, regListenersLock, listeners, inst>>
      PROVE  Goal
  <2>1. \A d \in Caller : /\ PortHolder(d)' => PortHolder(d) /\ call'[d].port = call[d].port
                          /\ RegHolder(d)' => RegHolder(d) /\ call'[d].reg = call[d].reg
    BY <1>c DEF PortHolder, RegHolder
  <2>2. \A i \in Listener : /\ HoldsPort(i)' <=> HoldsPort(i)
                            /\ HoldsReg(i)' <=> HoldsReg(i)
                            /\ Registered(i)' <=> Registered(i)
    BY <1>c DEF HoldsPort, HoldsReg, Registered, Made
  <2>3. OnlyShutdownsCleanUp'
    BY <1>c, <1>h DEF OnlyShutdownsCleanUp, Made
  <2>4. PortsHeld'
    BY <1>c, <1>h, <2>1, <2>2, PortsKept
  <2>5. RegistriesHeld'
    BY <1>c, <1>h, <2>1, <2>2, RegistriesKept
  <2>6. EntriesExact'
    BY <1>c, <1>h, <1>t, <2>2, EntriesKept
  <2> QED
    BY <2>3, <2>4, <2>5, <2>6 DEF LInv
(* One goroutine of a listener moves on, and gives nothing back.           *)
<1>l. ASSUME NEW i \in Listener, \A j \in Listener \ {i} : inst'[j] = inst[j],
             Made(i), Made(i)', inst'[i].reg = inst[i].reg, inst'[i].port = inst[i].port,
             \/ inst'[i].shut = inst[i].shut
             \/ {inst[i].shut, inst'[i].shut} \subseteq {"waiting", "draining", "entry"},
             inst'[i].serve \notin Cleaning,
             inst'[i].serve = "finished" => inst'[i].shut # "waiting",
             \A d \in Caller : /\ call'[d].step \notin Cleaning
                               /\ PortHolder(d)' => PortHolder(d) /\ call'[d].port = call[d].port
                               /\ RegHolder(d)' => RegHolder(d) /\ call'[d].reg = call[d].reg,
             UNCHANGED <<portsLock, regListenersLock, listeners>>
      PROVE  Goal
  <2>1. \A j \in Listener : /\ HoldsPort(j)' <=> HoldsPort(j)
                            /\ HoldsReg(j)' <=> HoldsReg(j)
                            /\ Registered(j)' <=> Registered(j)
    BY <1>l DEF HoldsPort, HoldsReg, Registered, Made
  <2>2. \A j \in Listener : inst'[j].port = inst[j].port /\ inst'[j].reg = inst[j].reg
    BY <1>l
  <2>3. OnlyShutdownsCleanUp'
    BY <1>l, <1>h DEF OnlyShutdownsCleanUp, Made
  <2>4. PortsHeld'
    BY <1>l, <1>h, <2>1, <2>2, PortsKept
  <2>5. RegistriesHeld'
    BY <1>l, <1>h, <2>1, <2>2, RegistriesKept
  <2>6. EntriesExact'
    BY <1>l, <1>h, <1>t, <2>1, <2>2, EntriesKept
  <2> QED
    BY <2>3, <2>4, <2>5, <2>6 DEF LInv
<1>1. ASSUME NEW c \in Caller, NEW r \in Registry, NEW pt \in Port, LockPort(c, r, pt)
      PROVE  Goal
  <2>1. /\ call' = [call EXCEPT ![c] = [step |-> "lockReg", reg |-> r, port |-> pt, ln |-> 0]]
        /\ pt \notin portsLock /\ portsLock' = portsLock \cup {pt}
        /\ UNCHANGED <<regListenersLock, listeners, inst>>
    BY <1>1 DEF LockPort, LockKey, Lockable
  <2>2. /\ call'[c].step = "lockReg" /\ call'[c].port = pt
        /\ \A d \in Caller \ {c} : call'[d] = call[d]
    BY <1>t, <2>1, Typed
  <2>3. \A i \in Listener : /\ HoldsPort(i)' <=> HoldsPort(i)
                            /\ HoldsReg(i)' <=> HoldsReg(i)
                            /\ Registered(i)' <=> Registered(i)
    BY <2>1 DEF HoldsPort, HoldsReg, Registered, Made
  <2>4. \A d \in Caller \ {c} : PortHolder(d)' => PortHolder(d) /\ call'[d].port = call[d].port
    BY <2>2 DEF PortHolder
  <2>5. \A d \in Caller : RegHolder(d)' => RegHolder(d) /\ call'[d].reg = call[d].reg
    BY <2>2 DEF RegHolder
  <2>6. OnlyShutdownsCleanUp'
    BY <1>h, <2>1, <2>2 DEF OnlyShutdownsCleanUp, Made, Cleaning
  <2>7. PortsHeld'
    BY <1>h, <2>1, <2>2, <2>3, <2>4 DEF PortsHeld
  <2>8. RegistriesHeld'
    BY <1>h, <2>1, <2>3, <2>5, RegistriesKept
  <2>9. EntriesExact'
    BY <1>h, <1>t, <2>1, <2>3, EntriesKept
  <2> QED
    BY <2>6, <2>7, <2>8, <2>9 DEF LInv
<1>2. ASSUME NEW c \in Caller, LockReg(c) PROVE Goal
  <2>1. /\ call[c].step = "lockReg" /\ call[c] # Idle
        /\ UNCHANGED <<portsLock, listeners, inst>>
    BY <1>2, <1>i DEF LockReg, At
  <2>2. CASE GoTo(c, "giveUp") /\ regListenersLock' = regListenersLock
    <3>1. /\ call'[c].step = "giveUp" /\ call'[c].port = call[c].port
          /\ \A d \in Caller \ {c} : call'[d] = call[d]
      BY <1>t, <2>1, <2>2, CallerMoves
    <3>2. PortHolder(c) /\ ~RegHolder(c)'
      BY <2>1, <3>1 DEF PortHolder, RegHolder
    <3> QED
      BY <1>c, <2>1, <2>2, <3>1, <3>2 DEF Cleaning
  <2>3. CASE /\ GoTo(c, "check") /\ call[c].reg \notin regListenersLock
             /\ regListenersLock' = regListenersLock \cup {call[c].reg}
    <3>1. /\ call'[c].step = "check" /\ call'[c].port = call[c].port
          /\ call'[c].reg = call[c].reg /\ \A d \in Caller \ {c} : call'[d] = call[d]
      BY <1>t, <2>1, <2>3, CallerMoves
    <3>2. \A i \in Listener : /\ HoldsPort(i)' <=> HoldsPort(i)
                              /\ HoldsReg(i)' <=> HoldsReg(i)
                              /\ Registered(i)' <=> Registered(i)
      BY <2>1 DEF HoldsPort, HoldsReg, Registered, Made
    <3>3. \A d \in Caller : PortHolder(d)' => PortHolder(d) /\ call'[d].port = call[d].port
      BY <2>1, <3>1 DEF PortHolder
    <3>4. \A d \in Caller \ {c} : RegHolder(d)' => RegHolder(d) /\ call'[d].reg = call[d].reg
      BY <3>1 DEF RegHolder
    <3>5. OnlyShutdownsCleanUp'
      BY <1>h, <2>1, <3>1 DEF OnlyShutdownsCleanUp, Made, Cleaning
    <3>6. PortsHeld'
      BY <1>h, <2>1, <3>2, <3>3, PortsKept
    <3>7. RegistriesHeld'
      BY <1>h, <2>1, <2>3, <3>1, <3>2, <3>4 DEF RegistriesHeld
    <3>8. EntriesExact'
      BY <1>h, <1>t, <2>1, <3>2, EntriesKept
    <3> QED
      BY <3>5, <3>6, <3>7, <3>8 DEF LInv
  <2> QED
    BY <1>2, <2>2, <2>3 DEF LockReg, LockKey, Lockable
<1>3. ASSUME NEW c \in Caller, GiveUp(c) PROVE Goal
  <2>1. /\ call[c].step = "giveUp" /\ Return(c) /\ portsLock' = portsLock \ {call[c].port}
        /\ UNCHANGED <<regListenersLock, listeners, inst>>
    BY <1>3 DEF GiveUp, At, UnlockKeys
  <2>2. call'[c] = Idle /\ \A d \in Caller \ {c} : call'[d] = call[d]
    BY <1>t, <2>1, CallerReturns
  <2>3. PortHolder(c) /\ ~PortHolder(c)' /\ ~RegHolder(c)' /\ call'[c].step \notin Cleaning
    BY <2>1, <2>2, Fields DEF PortHolder, RegHolder, Cleaning
  <2>4. \A i \in Listener : /\ HoldsPort(i)' <=> HoldsPort(i)
                            /\ HoldsReg(i)' <=> HoldsReg(i)
                            /\ Registered(i)' <=> Registered(i)
    BY <2>1 DEF HoldsPort, HoldsReg, Registered, Made
  <2>5. \A d \in Caller : /\ PortHolder(d)' => /\ PortHolder(d) /\ d # c
                                               /\ call'[d].port = call[d].port
                          /\ RegHolder(d)' => RegHolder(d) /\ call'[d].reg = call[d].reg
    BY <2>2, <2>3 DEF PortHolder, RegHolder
  <2>6. OnlyShutdownsCleanUp'
    BY <1>h, <2>1, <2>2, <2>3 DEF OnlyShutdownsCleanUp, Made
  <2>7. PortsHeld'
    <3>1. \A d \in Caller : PortHolder(d)' => call[d].port # call[c].port
      BY <1>h, <2>3, <2>5 DEF PortsHeld
    <3>2. \A i \in Listener : HoldsPort(i)' => inst[i].port # call[c].port
      BY <1>h, <2>3, <2>4 DEF PortsHeld
    <3>3. portsLock \ {call[c].port} \subseteq portsLock'
      BY <2>1
    <3> QED
      BY <1>h, <2>1, <2>4, <2>5, <3>1, <3>2, <3>3, PortsKept
  <2>8. RegistriesHeld'
    BY <1>h, <2>1, <2>4, <2>5, RegistriesKept
  <2>9. EntriesExact'
    BY <1>h, <1>t, <2>1, <2>4, EntriesKept
  <2> QED
    BY <2>6, <2>7, <2>8, <2>9 DEF LInv
(* No entry is found: its listener would hold the registry.                *)
<1>4. ASSUME NEW c \in Caller, CheckEntry(c) PROVE Goal
  <2>1. /\ call[c].step = "check" /\ call[c] # Idle /\ call[c].reg \in Registry
        /\ UNCHANGED <<portsLock, regListenersLock, listeners, inst>>
    BY <1>4, <1>i DEF CheckEntry, At, UnderWay
  <2>2. listeners[call[c].reg] = 0
    <3> SUFFICES ASSUME listeners[call[c].reg] # 0 PROVE FALSE
      OBVIOUS
    <3>1. PICK i \in Listener : i = listeners[call[c].reg] /\ inst[i].reg = call[c].reg
      BY <1>t, <2>1, Typed DEF ListenersMade
    <3>2. HoldsReg(i)
      BY <1>h, <2>1, <3>1 DEF EntriesExact, Registered, HoldsReg
    <3>3. RegHolder(c)
      BY <2>1 DEF RegHolder
    <3> QED
      BY <1>h, <3>1, <3>2, <3>3 DEF RegistriesHeld
  <2>3. /\ call'[c].step = "insert" /\ call'[c].port = call[c].port /\ call'[c].reg = call[c].reg
        /\ \A d \in Caller \ {c} : call'[d] = call[d]
    <3>1. GoTo(c, "insert")
      BY <1>4, <2>2 DEF CheckEntry
    <3> QED
      BY <1>t, <2>1, <3>1, CallerMoves
  <2>4. PortHolder(c) /\ RegHolder(c)
    BY <2>1 DEF PortHolder, RegHolder
  <2> QED
    BY <1>c, <2>1, <2>3, <2>4 DEF Cleaning
(* The new listener takes the keys over.                                   *)
<1>5. ASSUME NEW c \in Caller, Insert(c) PROVE Goal
  <2>1. PICK i \in Listener :
          /\ Unused(i)
          /\ Made(i)' /\ inst'[i].reg = call[c].reg /\ inst'[i].port = call[c].port
          /\ inst'[i].serve = "delayed" /\ inst'[i].shut = "waiting"
          /\ \A j \in Listener \ {i} : inst'[j] = inst[j]
          /\ call[c].step = "insert" /\ call[c].reg \in Registry
          /\ listeners' \in [Registry -> {0} \cup Listener]
          /\ listeners'[call[c].reg] = i
          /\ \A r \in Registry \ {call[c].reg} : listeners'[r] = listeners[r]
    BY <1>5, <1>t, Inserted
  <2>2. Return(c) /\ UNCHANGED <<portsLock, regListenersLock>>
    BY <1>5 DEF Insert
  <2>3. call'[c] = Idle /\ \A d \in Caller \ {c} : call'[d] = call[d]
    BY <1>t, <2>2, CallerReturns
  <2>4. ~HoldsPort(i) /\ ~HoldsReg(i) /\ ~Registered(i)
    BY <1>h, <2>1 DEF Unused, MayRelease, OnlyShutdownsCleanUp, HoldsPort, HoldsReg, Registered
  <2>5. PortHolder(c) /\ RegHolder(c) /\ ~PortHolder(c)' /\ ~RegHolder(c)'
    BY <2>1, <2>3, Fields DEF PortHolder, RegHolder
  <2>6. \A d \in Caller : /\ PortHolder(d)' => /\ PortHolder(d) /\ d # c
                                               /\ call'[d].port = call[d].port
                          /\ RegHolder(d)' => /\ RegHolder(d) /\ d # c
                                              /\ call'[d].reg = call[d].reg
    BY <2>3, <2>5 DEF PortHolder, RegHolder
  <2>7. \A j \in Listener \ {i} : /\ HoldsPort(j)' <=> HoldsPort(j)
                                  /\ HoldsReg(j)' <=> HoldsReg(j)
                                  /\ Registered(j)' <=> Registered(j)
                                  /\ inst'[j].port = inst[j].port /\ inst'[j].reg = inst[j].reg
    BY <2>1 DEF HoldsPort, HoldsReg, Registered, Made
  <2>8. OnlyShutdownsCleanUp'
    <3>1. \A d \in Caller : call'[d].step \notin Cleaning
      BY <1>h, <2>3, Fields DEF OnlyShutdownsCleanUp, Cleaning
    <3>2. \A j \in Listener : Made(j)' =>
            /\ inst'[j].serve \notin Cleaning
            /\ inst'[j].serve = "finished" => inst'[j].shut # "waiting"
      BY <1>h, <2>1 DEF OnlyShutdownsCleanUp, Made, Cleaning
    <3> QED
      BY <3>1, <3>2 DEF OnlyShutdownsCleanUp
  <2>9. PortsHeld'
    BY <1>h, <2>1, <2>2, <2>5, <2>6, <2>7 DEF PortsHeld
  <2>10. RegistriesHeld'
    BY <1>h, <2>1, <2>2, <2>5, <2>6, <2>7 DEF RegistriesHeld
  <2>11. \A j \in Listener : Registered(j)' => listeners'[inst'[j].reg] = j
    <3> SUFFICES ASSUME NEW j \in Listener, j # i, Registered(j)'
                 PROVE  listeners'[inst'[j].reg] = j
      BY <2>1
    <3>1. Registered(j) /\ HoldsReg(j) /\ inst'[j].reg = inst[j].reg
      BY <2>7 DEF Registered, HoldsReg
    <3>2. inst[j].reg \in Registry /\ inst[j].reg # call[c].reg
      BY <1>h, <1>t, <2>5, <3>1, Typed DEF RegistriesHeld, HoldsReg, Instance
    <3> QED
      BY <1>h, <2>1, <3>1, <3>2 DEF EntriesExact
  <2>12. \A r \in Registry : listeners'[r] # 0 =>
           inst'[listeners'[r]] # NoListener /\ inst'[listeners'[r]].shut \in {"waiting", "draining", "entry"}
    <3> SUFFICES ASSUME NEW r \in Registry, r # call[c].reg, listeners[r] # 0
                 PROVE  /\ inst'[listeners[r]] # NoListener
                        /\ inst'[listeners[r]].shut \in {"waiting", "draining", "entry"}
      BY <2>1 DEF Made
    <3>1. PICK j \in Listener : j = listeners[r] /\ Registered(j)
      BY <1>h, <1>t, Typed DEF EntriesExact
    <3> QED
      BY <2>1, <2>4, <3>1 DEF Registered, Made
  <2>13. EntriesExact'
    BY <2>11, <2>12 DEF EntriesExact, Registered, Made
  <2> QED
    BY <2>8, <2>9, <2>10, <2>13 DEF LInv
<1>6. ASSUME NEW c \in Caller, NEW r \in Registry, FindEntry(c, r) PROVE Goal
  <2>1. /\ UNCHANGED <<portsLock, regListenersLock, listeners, inst>>
        /\ call'[c].step = "cancel" /\ \A d \in Caller \ {c} : call'[d] = call[d]
    BY <1>6, <1>t, Typed DEF FindEntry
  <2> QED
    BY <1>c, <2>1 DEF PortHolder, RegHolder, Cleaning
<1>7. ASSUME NEW c \in Caller, Cancel(c) PROVE Goal
  <2>1. PICK i \in Listener : i = call[c].ln /\ Made(i) /\ call[c] # Idle
    BY <1>7, <1>i, <1>t DEF Cancel, At, ListenersMade, UnderWay
  <2>2. /\ inst' = [inst EXCEPT ![i].cancelled = TRUE] /\ GoTo(c, "wait")
        /\ UNCHANGED <<portsLock, regListenersLock, listeners>> /\ call[c].step = "cancel"
    BY <1>7, <2>1 DEF Cancel, At
  <2>3. /\ Made(i)' /\ inst'[i].reg = inst[i].reg /\ inst'[i].port = inst[i].port
        /\ inst'[i].serve = inst[i].serve /\ inst'[i].shut = inst[i].shut
        /\ \A j \in Listener \ {i} : inst'[j] = inst[j]
    BY <1>t, <2>1, <2>2, ListenerCancelled
  <2>4. call'[c].step = "wait" /\ \A d \in Caller \ {c} : call'[d] = call[d]
    BY <1>t, <2>1, <2>2, CallerMoves
  <2>5. \A d \in Caller : /\ call'[d].step \notin Cleaning
                          /\ PortHolder(d)' => PortHolder(d) /\ call'[d].port = call[d].port
                          /\ RegHolder(d)' => RegHolder(d) /\ call'[d].reg = call[d].reg
    BY <1>h, <2>4 DEF OnlyShutdownsCleanUp, PortHolder, RegHolder, Cleaning
  <2>6. /\ inst[i].serve \notin Cleaning
        /\ inst[i].serve = "finished" => inst[i].shut # "waiting"
    BY <1>h, <2>1 DEF OnlyShutdownsCleanUp
  <2> QED
    BY <1>l, <2>1, <2>2, <2>3, <2>5, <2>6
<1>8. ASSUME NEW c \in Caller, Unregistered(c) PROVE Goal
  <2>1. Return(c) /\ UNCHANGED <<portsLock, regListenersLock, listeners, inst>>
    BY <1>8 DEF Unregistered
  <2>2. call'[c] = Idle /\ \A d \in Caller \ {c} : call'[d] = call[d]
    BY <1>t, <2>1, CallerReturns
  <2>3. ~PortHolder(c)' /\ ~RegHolder(c)' /\ call'[c].step \notin Cleaning
    BY <2>2, Fields DEF PortHolder, RegHolder, Cleaning
  <2> QED
    BY <1>c, <2>1, <2>2, <2>3
<1>9. ASSUME NEW c \in Caller PROVE ~TimedOut(c) /\ ~CallCleanup(c)
  BY <1>h DEF TimedOut, CallCleanup, OnlyShutdownsCleanUp
<1>10. ASSUME NEW i \in Listener, Listen(i) \/ ServerClosed(i) PROVE Goal
  <2>1. PICK serve \in {"serving", "finished"} :
          /\ inst' = [inst EXCEPT ![i].serve = serve] /\ Made(i)
          /\ serve = "finished" => inst[i].shut # "waiting"
          /\ UNCHANGED <<portsLock, regListenersLock, listeners, call>>
    BY <1>10 DEF Listen, ServerClosed
  <2>2. /\ Made(i)' /\ inst'[i].reg = inst[i].reg /\ inst'[i].port = inst[i].port
        /\ inst'[i].serve = serve /\ inst'[i].shut = inst[i].shut
        /\ \A j \in Listener \ {i} : inst'[j] = inst[j]
    BY <1>t, <2>1, ServeMoves
  <2>3. \A d \in Caller : /\ call'[d].step \notin Cleaning
                          /\ PortHolder(d)' => PortHolder(d) /\ call'[d].port = call[d].port
                          /\ RegHolder(d)' => RegHolder(d) /\ call'[d].reg = call[d].reg
    BY <1>h, <2>1 DEF OnlyShutdownsCleanUp, PortHolder, RegHolder
  <2>4. serve \notin Cleaning
    BY <2>1 DEF Cleaning
  <2> QED
    BY <1>l, <2>1, <2>2, <2>3, <2>4
(* No server finds its port taken: the other would hold the same port.     *)
<1>11. ASSUME NEW i \in Listener PROVE ~ServerFails(i) /\ ~ServeCleanup(i)
  <2>1. ~ServeCleanup(i)
    BY <1>h DEF ServeCleanup, OnlyShutdownsCleanUp
  <2>2. ASSUME ServerFails(i) PROVE FALSE
    <3>1. /\ HoldsPort(i) /\ inst[i].serve = "delayed"
      BY <2>2 DEF ServerFails, HoldsPort
    <3>2. PICK j \in Listener : Listening(j) /\ inst[j].port = inst[i].port
      BY <2>2 DEF ServerFails
    <3>3. HoldsPort(j) /\ i # j
      BY <3>1, <3>2 DEF Listening, HoldsPort
    <3> QED
      BY <1>h, <3>1, <3>2, <3>3 DEF PortsHeld
  <2> QED
    BY <2>1, <2>2
<1>12. ASSUME NEW i \in Listener, Shutdown(i) \/ Drained(i) PROVE Goal
  <2>1. PICK shut \in {"draining", "entry"} :
          /\ inst' = [inst EXCEPT ![i].shut = shut] /\ Made(i)
          /\ inst[i].shut \in {"waiting", "draining"}
          /\ UNCHANGED <<portsLock, regListenersLock, listeners, call>>
    BY <1>12 DEF Shutdown, Drained
  <2>2. /\ Made(i)' /\ inst'[i].reg = inst[i].reg /\ inst'[i].port = inst[i].port
        /\ inst'[i].shut = shut /\ inst'[i].serve = inst[i].serve
        /\ \A j \in Listener \ {i} : inst'[j] = inst[j]
    <3>1. shut \in {"waiting", "draining", "finished"} \cup Cleaning
      BY <2>1 DEF Cleaning
    <3> QED
      BY <1>t, <2>1, <3>1, ShutMoves
  <2>3. \A d \in Caller : /\ call'[d].step \notin Cleaning
                          /\ PortHolder(d)' => PortHolder(d) /\ call'[d].port = call[d].port
                          /\ RegHolder(d)' => RegHolder(d) /\ call'[d].reg = call[d].reg
    BY <1>h, <2>1 DEF OnlyShutdownsCleanUp, PortHolder, RegHolder
  <2>4. inst[i].serve \notin Cleaning
    BY <1>h, <2>1 DEF OnlyShutdownsCleanUp
  <2>5. {inst[i].shut, inst'[i].shut} \subseteq {"waiting", "draining", "entry"}
    BY <2>1, <2>2
  <2>6. inst'[i].shut # "waiting"
    BY <2>1, <2>2
  <2> QED
    BY <1>l, <2>1, <2>2, <2>3, <2>4, <2>5, <2>6
<1>13. ASSUME NEW i \in Listener, ShutCleanup(i) PROVE Goal
  <2>1. PICK step \in Cleaning, next \in {"port", "reg", "finished"} :
          /\ Cleanup(step, inst[i].reg, inst[i].port) /\ Made(i)
          /\ inst' = [inst EXCEPT ![i].shut = next] /\ inst[i].shut = step
          /\ call' = call
          /\ \/ step = "entry" /\ next = "port"
             \/ step = "port" /\ next = "reg"
             \/ step = "reg" /\ next = "finished"
    BY <1>13 DEF ShutCleanup, After, Cleaning
  <2>2. inst[i].reg \in Registry /\ inst[i].port \in Port
    BY <1>t, <2>1, Typed DEF Instance
  <2>3. /\ Made(i)' /\ inst'[i].reg = inst[i].reg /\ inst'[i].port = inst[i].port
        /\ inst'[i].shut = next /\ inst'[i].serve = inst[i].serve
        /\ \A j \in Listener \ {i} : inst'[j] = inst[j]
    <3>1. next \in {"waiting", "draining", "finished"} \cup Cleaning
      BY <2>1 DEF Cleaning
    <3> QED
      BY <1>t, <2>1, <3>1, ShutMoves
  <2>4. /\ step = "port" => UNCHANGED <<listeners, regListenersLock>>
        /\ step = "reg" => UNCHANGED <<listeners, portsLock>>
        /\ step = "entry" => UNCHANGED <<portsLock, regListenersLock>>
        /\ portsLock \ {inst[i].port} \subseteq portsLock'
        /\ regListenersLock \ {inst[i].reg} \subseteq regListenersLock'
        /\ listeners' \in [Registry -> {0} \cup Listener]
        /\ \A s \in Registry :
             listeners'[s] = IF step = "entry" /\ s = inst[i].reg THEN 0 ELSE listeners[s]
    BY <1>t, <2>1, <2>2, Cleaned
  <2>5. \A j \in Listener : /\ HoldsPort(j)' => HoldsPort(j)
                            /\ HoldsReg(j)' => HoldsReg(j)
                            /\ inst'[j].port = inst[j].port /\ inst'[j].reg = inst[j].reg
                            /\ Registered(j)' => Registered(j) /\ j # i
                            /\ Registered(j) => Registered(j)' \/ j = i
    BY <2>1, <2>3 DEF HoldsPort, HoldsReg, Registered, Made
  <2>6. \A d \in Caller : /\ PortHolder(d)' <=> PortHolder(d)
                          /\ RegHolder(d)' <=> RegHolder(d)
    BY <2>1 DEF PortHolder, RegHolder
  <2>7. OnlyShutdownsCleanUp'
    BY <1>h, <2>1, <2>3 DEF OnlyShutdownsCleanUp, Made
  <2>8. PortsHeld'
    <3>1. CASE step = "port"
      <4>1. HoldsPort(i) /\ ~HoldsPort(i)'
        BY <2>1, <2>3, <3>1 DEF HoldsPort
      <4>2. \A d \in Caller : PortHolder(d)' => call[d].port # inst[i].port
        BY <1>h, <2>6, <4>1 DEF PortsHeld
      <4>3. \A j \in Listener : HoldsPort(j)' => inst[j].port # inst[i].port
        BY <1>h, <2>5, <4>1 DEF PortsHeld
      <4> QED
        BY <1>h, <2>1, <2>4, <2>5, <2>6, <4>2, <4>3, PortsKept
    <3>2. CASE step # "port"
      BY <1>h, <2>1, <2>5, <2>6, <2>4, <3>2, PortsKept
    <3> QED
      BY <3>1, <3>2
  <2>9. RegistriesHeld'
    <3>1. CASE step = "reg"
      <4>1. HoldsReg(i) /\ ~HoldsReg(i)'
        BY <2>1, <2>3, <3>1 DEF HoldsReg
      <4>2. \A d \in Caller : RegHolder(d)' => call[d].reg # inst[i].reg
        BY <1>h, <2>6, <4>1 DEF RegistriesHeld
      <4>3. \A j \in Listener : HoldsReg(j)' => inst[j].reg # inst[i].reg
        BY <1>h, <2>5, <4>1 DEF RegistriesHeld
      <4> QED
        BY <1>h, <2>1, <2>4, <2>5, <2>6, <4>2, <4>3, RegistriesKept
    <3>2. CASE step # "reg"
      BY <1>h, <2>1, <2>5, <2>6, <2>4, <3>2, RegistriesKept
    <3> QED
      BY <3>1, <3>2
  <2>10. EntriesExact'
    <3>1. CASE step = "entry"
      <4>1. Registered(i) /\ HoldsReg(i) /\ listeners[inst[i].reg] = i
        BY <1>h, <2>1, <3>1 DEF Registered, HoldsReg, EntriesExact
      <4>2. \A j \in Listener : Registered(j)' => listeners'[inst'[j].reg] = j
        <5> SUFFICES ASSUME NEW j \in Listener, Registered(j)' PROVE listeners'[inst'[j].reg] = j
          OBVIOUS
        <5>1. Registered(j) /\ HoldsReg(j) /\ j # i /\ inst'[j].reg = inst[j].reg
          BY <2>5 DEF Registered, HoldsReg
        <5>2. inst[j].reg \in Registry /\ inst[j].reg # inst[i].reg
          BY <1>h, <1>t, <4>1, <5>1, Typed DEF RegistriesHeld, HoldsReg, Instance
        <5> QED
          BY <1>h, <2>4, <5>1, <5>2 DEF EntriesExact
      <4>3. \A r \in Registry : listeners'[r] # 0 =>
              /\ inst'[listeners'[r]] # NoListener
              /\ inst'[listeners'[r]].shut \in {"waiting", "draining", "entry"}
        <5> SUFFICES ASSUME NEW r \in Registry, listeners'[r] # 0
                     PROVE  /\ inst'[listeners'[r]] # NoListener
                            /\ inst'[listeners'[r]].shut \in {"waiting", "draining", "entry"}
          OBVIOUS
        <5>1. r # inst[i].reg /\ listeners'[r] = listeners[r]
          BY <2>4, <3>1
        <5>2. PICK j \in Listener : j = listeners[r] /\ Registered(j) /\ inst[j].reg = r
          BY <1>h, <1>t, <5>1, Typed DEF EntriesExact, ListenersMade
        <5> QED
          BY <2>3, <5>1, <5>2 DEF Registered, Made
      <4> QED
        BY <4>2, <4>3 DEF EntriesExact, Registered, Made
    <3>2. CASE step # "entry"
      <4>1. listeners' = listeners
        BY <2>1, <2>4, <3>2
      <4>2. \A j \in Listener : Registered(j)' <=> Registered(j)
        BY <2>1, <2>5, <3>2 DEF Registered
      <4> QED
        BY <1>h, <1>t, <2>5, <4>1, <4>2, EntriesKept
    <3> QED
      BY <3>1, <3>2
  <2> QED
    BY <2>7, <2>8, <2>9, <2>10 DEF LInv
<1>14. ASSUME UNCHANGED vars PROVE Goal
  <2>1. UNCHANGED <<portsLock, regListenersLock, listeners, inst, call>>
    BY <1>14 DEF vars
  <2> QED
    BY <1>h, <2>1
       DEF LInv, OnlyShutdownsCleanUp, PortsHeld, RegistriesHeld, EntriesExact,
           PortHolder, RegHolder, HoldsPort, HoldsReg, Registered, Made
<1>15. Goal
  <2> HIDE DEF Goal
  <2> QED
    BY Zenon, <1>1, <1>2, <1>3, <1>4, <1>5, <1>6, <1>7, <1>8, <1>9, <1>10, <1>11, <1>12,
       <1>13, <1>14
       DEF Next, CallStep, Serve, Shut
<1> QED
  BY <1>15

(* As long as no wait times out and no server fails on its own, LInv holds *)
(* of every reachable state.                                               *)
THEOREM OrderlyInvariant ==
  ASSUME ~Timeouts, ~ServerErrors
  PROVE  Spec => [](TInv /\ LInv)
<1>1. Init => TInv /\ LInv
  <2> SUFFICES ASSUME Init PROVE LInv
    BY TInvInit
  <2>1. /\ \A c \in Caller : call[c].step = "idle"
        /\ \A i \in Listener : ~Made(i)
        /\ \A r \in Registry : listeners[r] = 0
    BY Fields DEF Init, Made
  <2> QED
    BY <2>1
       DEF LInv, OnlyShutdownsCleanUp, PortsHeld, RegistriesHeld, EntriesExact,
           PortHolder, RegHolder, HoldsPort, HoldsReg, Registered, Cleaning
<1>2. TInv /\ LInv /\ [Next]_vars => (TInv /\ LInv)'
  BY TInvStep, LInvStep
<1> QED
  BY <1>1, <1>2, PTL DEF Spec

(* Without timeouts and failing servers, a listener that accepts requests  *)
(* is the one UnregisterListener finds, and its port and its registry are  *)
(* locked: nobody else is given either.                                    *)
THEOREM ListeningStaysRegistered ==
  ASSUME ~Timeouts, ~ServerErrors
  PROVE  Spec => []ListeningIsRegistered
<1>1. TInv /\ LInv => ListeningIsRegistered
  <2> SUFFICES ASSUME TInv, LInv, NEW i \in Listener, Listening(i)
               PROVE  /\ listeners[inst[i].reg] = i
                      /\ inst[i].port \in portsLock /\ inst[i].reg \in regListenersLock
    BY DEF ListeningIsRegistered
  <2>1. Registered(i) /\ HoldsPort(i) /\ HoldsReg(i)
    BY DEF Listening, Registered, HoldsPort, HoldsReg
  <2> QED
    BY <2>1 DEF LInv, EntriesExact, PortsHeld, RegistriesHeld
<1> QED
  BY <1>1, OrderlyInvariant, PTL
=============================================================================

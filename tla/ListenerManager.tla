--------------------------- MODULE ListenerManager ---------------------------
(***************************************************************************)
(* The HTTP listeners of the hosted registry and the upstream proxies,     *)
(* listeners/listeners.go.  Every listener has two goroutines: one serves  *)
(* and, when that fails, cleans up; the other waits to be cancelled, shuts *)
(* the server down and cleans up.  A step is what runs under one mutex.    *)
(* The checks of regId and port are left out: all inputs are valid ones.   *)
(***************************************************************************)
EXTENDS KeyLock

CONSTANTS Registry, Port, Caller,
          MaxListeners,   \* bound: listeners alive or still being cleaned up
          Timeouts,       \* whether the wait for a shutdown may time out
          ServerErrors    \* whether a server may fail on its own

ASSUME ListenerParameters == /\ MaxListeners \in Nat
                             /\ Timeouts \in BOOLEAN /\ ServerErrors \in BOOLEAN

VARIABLES portsLock, regListenersLock,   \* locked keys
          listeners,                     \* the listener registered for each registry, or 0
          inst,                          \* the listeners ever made, with their goroutines
          call                           \* the caller's Register- or UnregisterListener

vars == <<portsLock, regListenersLock, listeners, inst, call>>

Listener == 1..MaxListeners
Cleaning == {"entry", "port", "reg"}     \* the three steps of cleanup
NoListener == [reg |-> "none"]
Idle       == [step |-> "idle"]

TypeOK ==
  /\ portsLock \subseteq Port
  /\ regListenersLock \subseteq Registry
  /\ listeners \in [Registry -> {0} \cup Listener]
  /\ inst \in [Listener -> {NoListener} \cup
                 [reg : Registry, port : Port, cancelled : BOOLEAN,
                  serve : {"delayed", "serving", "finished"} \cup Cleaning,
                  shut  : {"waiting", "draining", "finished"} \cup Cleaning]]
  /\ call \in [Caller -> {Idle} \cup
                 [step : {"lockReg", "giveUp", "check", "insert", "cancel", "wait"}
                           \cup Cleaning,
                  reg : Registry, port : Port, ln : {0} \cup Listener]]

Init == /\ portsLock = {}
        /\ regListenersLock = {}
        /\ listeners = [r \in Registry |-> 0]
        /\ inst = [i \in Listener |-> NoListener]
        /\ call = [c \in Caller |-> Idle]

-----------------------------------------------------------------------------
Made(i) == inst[i] # NoListener
Listening(i) == Made(i) /\ inst[i].serve = "serving" /\ inst[i].shut = "waiting"
InCall(c, i) == call[c] # Idle /\ call[c].ln = i

(* One of the two goroutines has a cleanup before it.                      *)
MayRelease(i) == \/ inst[i].serve # "finished"
                 \/ IF inst[i].shut = "waiting" THEN inst[i].cancelled
                    ELSE inst[i].shut # "finished"

(* A listener nothing refers to, whose Done is closed.  Its second         *)
(* goroutine may still wait: nobody can cancel it any more.                *)
Unused(i) == Made(i) => /\ ~MayRelease(i)
                        /\ listeners[inst[i].reg] # i
                        /\ \A c \in Caller : ~InCall(c, i)

At(c, step) == call[c].step = step
GoTo(c, step) == call' = [call EXCEPT ![c].step = step]
Return(c) == call' = [call EXCEPT ![c] = Idle]

After(step) == CASE step = "entry" -> "port" [] step = "port" -> "reg" [] step = "reg" -> "finished"

(* cleanup: the entry, whichever listener it holds, then the two keys.     *)
Cleanup(step, r, pt) ==
  /\ listeners' = IF step = "entry" THEN [listeners EXCEPT ![r] = 0] ELSE listeners
  /\ portsLock' = IF step = "port" THEN UnlockKeys(portsLock, {pt}) ELSE portsLock
  /\ regListenersLock' =
       IF step = "reg" THEN UnlockKeys(regListenersLock, {r}) ELSE regListenersLock

-----------------------------------------------------------------------------
(* RegisterListener *)

LockPort(c, r, pt) ==
  /\ At(c, "idle")
  /\ Lockable(portsLock, pt)
  /\ portsLock' = LockKey(portsLock, pt)
  /\ call' = [call EXCEPT ![c] = [step |-> "lockReg", reg |-> r, port |-> pt, ln |-> 0]]
  /\ UNCHANGED <<regListenersLock, listeners, inst>>

LockReg_PortKey(c) ==   \* mutant: the wrong key
  /\ At(c, "lockReg")
  /\ regListenersLock' = LockKey(regListenersLock, call[c].port)
  /\ GoTo(c, "check")
  /\ UNCHANGED <<portsLock, listeners, inst>>

LockReg(c) ==
  /\ At(c, "lockReg")
  /\ LET r == call[c].reg IN
       IF Lockable(regListenersLock, r)
         THEN regListenersLock' = LockKey(regListenersLock, r) /\ GoTo(c, "check")
         ELSE UNCHANGED regListenersLock /\ GoTo(c, "giveUp")
  /\ UNCHANGED <<portsLock, listeners, inst>>

GiveUp_KeepsPort(c) ==   \* mutant: the port stays locked
  /\ At(c, "giveUp")
  /\ Return(c)
  /\ UNCHANGED <<portsLock, regListenersLock, listeners, inst>>

GiveUp(c) ==
  /\ At(c, "giveUp")
  /\ portsLock' = UnlockKeys(portsLock, {call[c].port})
  /\ Return(c)
  /\ UNCHANGED <<regListenersLock, listeners, inst>>

(* An entry that is there although the key was free is cleaned up.         *)
CheckEntry(c) ==
  /\ At(c, "check")
  /\ GoTo(c, IF listeners[call[c].reg] # 0 THEN "entry" ELSE "insert")
  /\ UNCHANGED <<portsLock, regListenersLock, listeners, inst>>

Insert(c) ==
  /\ At(c, "insert")
  /\ \E i \in Listener :
       /\ Unused(i) /\ \A j \in 1 .. i-1 : ~Unused(j)
       /\ inst' = [inst EXCEPT ![i] =
            [reg |-> call[c].reg, port |-> call[c].port, cancelled |-> FALSE,
             serve |-> "delayed", shut |-> "waiting"]]
       /\ listeners' = [listeners EXCEPT ![call[c].reg] = i]
  /\ Return(c)
  /\ UNCHANGED <<portsLock, regListenersLock>>

-----------------------------------------------------------------------------
(* The goroutine that serves: after the delay it binds the port, unless    *)
(* the server has been shut down.                                          *)

Listen(i) ==
  /\ Made(i) /\ inst[i].serve = "delayed" /\ inst[i].shut = "waiting"
  /\ \A j \in Listener : Listening(j) => inst[j].port # inst[i].port
  /\ inst' = [inst EXCEPT ![i].serve = "serving"]
  /\ UNCHANGED <<portsLock, regListenersLock, listeners, call>>

ServerFails(i) ==
  /\ Made(i) /\ inst[i].serve \in {"delayed", "serving"} /\ inst[i].shut = "waiting"
  /\ \/ ServerErrors
     \/ /\ inst[i].serve = "delayed"
        /\ \E j \in Listener : Listening(j) /\ inst[j].port = inst[i].port
  /\ inst' = [inst EXCEPT ![i].serve = "entry"]
  /\ UNCHANGED <<portsLock, regListenersLock, listeners, call>>

(* ErrServerClosed: the goroutine ends, and its last act is close(Done).   *)
ServerClosed_Sleeping(i) ==   \* mutant: during the delay nobody notices the shutdown
  /\ Made(i) /\ inst[i].serve \in {"delayed", "serving"} /\ inst[i].shut # "waiting"
  /\ inst' = [inst EXCEPT ![i].serve = IF @ = "serving" THEN "finished" ELSE @]
  /\ UNCHANGED <<portsLock, regListenersLock, listeners, call>>

ServerClosed(i) ==
  /\ Made(i) /\ inst[i].serve \in {"delayed", "serving"} /\ inst[i].shut # "waiting"
  /\ inst' = [inst EXCEPT ![i].serve = "finished"]
  /\ UNCHANGED <<portsLock, regListenersLock, listeners, call>>

ServeCleanup_Once(i) ==   \* mutant: a server that failed removes its entry only
  /\ Made(i) /\ inst[i].serve \in Cleaning
  /\ Cleanup("entry", inst[i].reg, inst[i].port)
  /\ inst' = [inst EXCEPT ![i].serve = "finished"]
  /\ UNCHANGED call

ServeCleanup(i) ==
  /\ Made(i) /\ inst[i].serve \in Cleaning
  /\ Cleanup(inst[i].serve, inst[i].reg, inst[i].port)
  /\ inst' = [inst EXCEPT ![i].serve = After(@)]
  /\ UNCHANGED call

(* The goroutine that waits for the context: Shutdown closes the port at   *)
(* once, then waits for the open requests.                                 *)

Shutdown(i) ==
  /\ Made(i) /\ inst[i].cancelled /\ inst[i].shut = "waiting"
  /\ inst' = [inst EXCEPT ![i].shut = "draining"]
  /\ UNCHANGED <<portsLock, regListenersLock, listeners, call>>

Drained(i) ==
  /\ Made(i) /\ inst[i].shut = "draining"
  /\ inst' = [inst EXCEPT ![i].shut = "entry"]
  /\ UNCHANGED <<portsLock, regListenersLock, listeners, call>>

ShutCleanup_PortOnly(i) ==   \* mutant: the key of the registry is forgotten
  /\ Made(i) /\ inst[i].shut \in Cleaning
  /\ Cleanup(inst[i].shut, inst[i].reg, inst[i].port)
  /\ inst' = [inst EXCEPT ![i].shut = IF @ = "entry" THEN "port" ELSE "finished"]
  /\ UNCHANGED call

ShutCleanup(i) ==
  /\ Made(i) /\ inst[i].shut \in Cleaning
  /\ Cleanup(inst[i].shut, inst[i].reg, inst[i].port)
  /\ inst' = [inst EXCEPT ![i].shut = After(@)]
  /\ UNCHANGED call

-----------------------------------------------------------------------------
(* UnregisterListener reads the map without its mutex. *)

FindEntry(c, r) ==
  /\ At(c, "idle")
  /\ listeners[r] # 0
  /\ LET i == listeners[r] IN
       call' = [call EXCEPT ![c] = [step |-> "cancel", reg |-> r, port |-> inst[i].port, ln |-> i]]
  /\ UNCHANGED <<portsLock, regListenersLock, listeners, inst>>

Cancel_NoWait(c) ==   \* mutant: cleaned up before the server has stopped
  /\ At(c, "cancel")
  /\ inst' = [inst EXCEPT ![call[c].ln].cancelled = TRUE]
  /\ GoTo(c, "entry")
  /\ UNCHANGED <<portsLock, regListenersLock, listeners>>

Cancel(c) ==
  /\ At(c, "cancel")
  /\ inst' = [inst EXCEPT ![call[c].ln].cancelled = TRUE]
  /\ GoTo(c, "wait")
  /\ UNCHANGED <<portsLock, regListenersLock, listeners>>

Unregistered(c) ==
  /\ At(c, "wait")
  /\ inst[call[c].ln].serve = "finished"
  /\ Return(c)
  /\ UNCHANGED <<portsLock, regListenersLock, listeners, inst>>

TimedOut(c) ==
  /\ Timeouts
  /\ At(c, "wait")
  /\ GoTo(c, "entry")
  /\ UNCHANGED <<portsLock, regListenersLock, listeners, inst>>

(* The cleanup of a caller: an entry found by RegisterListener, a timeout  *)
(* of UnregisterListener.                                                  *)
CallCleanup(c) ==
  /\ call[c].step \in Cleaning
  /\ Cleanup(call[c].step, call[c].reg, call[c].port)
  /\ IF At(c, "reg") THEN Return(c) ELSE GoTo(c, After(call[c].step))
  /\ UNCHANGED inst

-----------------------------------------------------------------------------
CallStep(c) == \/ LockReg(c) \/ GiveUp(c) \/ CheckEntry(c) \/ Insert(c)
               \/ Cancel(c) \/ Unregistered(c) \/ CallCleanup(c)

Serve(i) == Listen(i) \/ ServerClosed(i) \/ ServeCleanup(i)
Shut(i)  == Shutdown(i) \/ Drained(i) \/ ShutCleanup(i)

Next ==
  \/ \E c \in Caller :
       \/ \E r \in Registry : FindEntry(c, r) \/ \E pt \in Port : LockPort(c, r, pt)
       \/ CallStep(c) \/ TimedOut(c)
  \/ \E i \in Listener : Serve(i) \/ Shut(i) \/ ServerFails(i)

Spec == Init /\ [][Next]_vars

(* Goroutines run, and a shutdown ends within its 30 seconds.  Nobody has  *)
(* to call, to time out or to fail.                                        *)
FairSpec == /\ Spec
            /\ \A c \in Caller : WF_vars(CallStep(c))
            /\ \A i \in Listener : WF_vars(Serve(i)) /\ WF_vars(Shut(i))

-----------------------------------------------------------------------------
(* Properties *)

(* As long as no wait times out and no server fails on its own, a listener *)
(* that accepts requests is the one registered for its registry, until its *)
(* shutdown, and holds its port and its registry: it can be found and      *)
(* stopped, and nobody else is given either.                               *)
ListeningIsRegistered ==
  \A i \in Listener : Listening(i) =>
    /\ listeners[inst[i].reg] = i
    /\ inst[i].port \in portsLock
    /\ inst[i].reg \in regListenersLock

InUse(field, key) ==
  \/ \E c \in Caller : call[c] # Idle /\ call[c][field] = key
  \/ \E i \in Listener : Made(i) /\ inst[i][field] = key /\ MayRelease(i)

(* Whatever fails or times out, no key outlives those who can release it:  *)
(* a port or a registry is never locked for ever.                          *)
KeysHaveHolders == /\ \A pt \in portsLock : InUse("port", pt)
                   /\ \A r \in regListenersLock : InUse("reg", r)

(* Who waits for a listener to stop gets an answer, without any timeout.   *)
UnregisterReturns == \A c \in Caller : At(c, "wait") ~> At(c, "idle")

(* A registry whose listener was cancelled can be registered again, if not *)
(* at once: the shutdown releases it.                                      *)
RegistriesComeFree ==
  \A i \in Listener, r \in Registry :
    Made(i) /\ inst[i].reg = r /\ inst[i].cancelled /\ inst[i].shut = "waiting"
      ~> r \notin regListenersLock
=============================================================================
